---- MODULE Spec2Model ----
(***************************************************************************)
(* ZeusDB: the connection / transaction state machine (ZeusConnection),    *)
(* the DataSource convenience calls (ZeusDataSource) and the MySQL         *)
(* provider's connection bookkeeping (MysqlProvider).                      *)
(*                                                                         *)
(* Every async method is cut at its awaits: the part that runs             *)
(* synchronously when the method is called is one action (or an operator   *)
(* used inside the caller's action), and the continuation that runs when   *)
(* the awaited driver I/O settles is another ("..._resume").               *)
(***************************************************************************)
EXTENDS Integers, Sequences, FiniteSets, TLC

\* Number of callers (tasks).  Each task makes one DataSource-level call and
\* therefore creates at most one ZeusConnection, which carries the task's id.
MaxTasks == 3

\* Number of ZeusDataSource objects ever constructed (each registerDataSource
\* call constructs one).
MaxDataSources == 3

\* Largest number of rows the driver returns for one query.
MaxRows == 2

\* mysql.connectionLimit of the pool (README: "The maximum number of
\* connections to create for the pool").
ConnectionLimit == 1

Tasks == 1..MaxTasks

\* Physical connections: 1..ConnectionLimit belong to the pool, and a
\* non-pooled start() of task t creates the dedicated handle ConnectionLimit+t.
PoolHandles == 1..ConnectionLimit
Handles == 1..(ConnectionLimit + MaxTasks)

\* What the driver can answer to a query: an array of rows (row i of an
\* n-row answer is the value i) ...
QueryResults == { [i \in 1..n |-> i] : n \in 0..MaxRows }
\* ... and to an execute.
ExecuteResults == { [affectedRows |-> 0, insertId |-> 0], [affectedRows |-> 1, insertId |-> 1] }

SingleShot == {"query", "queryRow", "queryScalar", "execute", "batchExecute"}
TaskKinds == SingleShot \cup {"connect", "begin"}

\* The SQL texts handed to batchExecute.
BatchInputs == {"", "a';'b;c"}

VARIABLES
  dsThrowErrors,    \* ZeusDataSource._throwErrors
  usePool,          \* ZeusDataSource._usePool
  pool,             \* MysqlProvider._pool is defined
  physBusy,         \* physical connections held by a caller (pool slots in use, or live dedicated connections)
  physTx,           \* per physical connection: the driver has a transaction in progress
  acquiring,        \* tasks whose getConnection / connect callback has not fired yet
  timers,           \* tasks whose pool-acquire timeout is armed
  openConnections,  \* MysqlProvider._openConnections
  conns,            \* the ZeusConnection objects, by id
  pending,          \* per connection: the provider call its current method is awaiting
  lastRet,          \* per connection: how its most recent method call came back to the caller
  entryThrowErrors, \* per connection: its throwErrors flag when its most recent method was called
  tasks,            \* per task: the DataSource call it makes and where it stands
  disconnecting,    \* the call of MysqlProvider.disconnectAll: where it stands, and the connection whose end it awaits
  poolClosed,       \* pool.end() has been called on MysqlProvider._pool
  dataSources,      \* ZeusDB._dataSources: identifier -> the registered ZeusDataSource
  constructed,      \* number of ZeusDataSource objects constructed so far (object identities, generated ids)
  registerRet,      \* what the last registerDataSource call gave its caller
  dsDisconnect,     \* per registered DataSource: the promise of its disconnectAll() started by ZeusDB.disconnectAll
  registryCall,     \* the call of ZeusDB.disconnectAll: where it stands, whom it disconnects, what it reported
  configFile,       \* zeusdb/zeusdb.json under the working directory, as ZeusDB.init reads it
  getRet,           \* what the last getDataSource call gave its caller, and how often it ran init()
  initRet,          \* how the last direct call of ZeusDB.init came back, and the identifiers registered before it
  batchExecuteAlwaysSplit, \* ZeusDataSource._batchExecuteAlwaysSplit
  multipleStatements,      \* the multipleStatements option of the mysql configuration
  batch,            \* per connection: the MysqlProvider.batchExecute call of its batchExecute
  templateCall,     \* a call of ZeusUtil.formatTemplateQuery: its arguments and its answer
  splitCall         \* a call of ZeusUtil.splitSqlStatements: its argument and its run

provVars == <<pool, physBusy, physTx, acquiring, timers, openConnections>>
connVars == <<conns, pending, lastRet, entryThrowErrors>>
disconnectVars == <<disconnecting, poolClosed>>
registryVars == <<dataSources, constructed, registerRet, dsDisconnect, registryCall, configFile, getRet, initRet>>
batchFlags == <<batchExecuteAlwaysSplit, multipleStatements>>
utilVars == <<templateCall, splitCall>>
vars == <<dsThrowErrors, usePool, pool, physBusy, physTx, acquiring, timers,
          openConnections, conns, pending, lastRet, entryThrowErrors, tasks,
          disconnecting, poolClosed,
          dataSources, constructed, registerRet, dsDisconnect, registryCall, configFile, getRet, initRet,
          batchExecuteAlwaysSplit, multipleStatements, batch, templateCall, splitCall>>

\* A ZeusConnection that has not been constructed yet.
NoConnection ==
  [ created |-> FALSE, opened |-> FALSE, inTransaction |-> FALSE, throwErrors |-> TRUE,
    result |-> <<>>, resultCount |-> 0, resultCursor |-> 0,
    insertId |-> 0, affectedRows |-> 0, errorLast |-> "none", connection |-> 0 ]

\* new ZeusConnection(provider, connection): the field initialisers and the constructor.
ZeusConnection(h) ==
  [ NoConnection EXCEPT !.created = TRUE, !.opened = TRUE, !.connection = h ]

(***************************************************************************)
(* ZeusUtil: the query formatter and the statement splitter.  Strings are  *)
(* indexed from 1 here, from 0 in the source.                              *)
(***************************************************************************)

charAt(s, i) == SubSeq(s, i, i)
slice(s, i) == SubSeq(s, i, Len(s))
startsWith(s, prefix) == Len(prefix) <= Len(s) /\ SubSeq(s, 1, Len(prefix)) = prefix

LowerCase == "abcdefghijklmnopqrstuvwxyz"
UpperCase == "ABCDEFGHIJKLMNOPQRSTUVWXYZ"
WordCharacters == LowerCase \o UpperCase \o "0123456789_"
WhiteSpace == {" ", "\n", "\t", "\r"}

\* \w of the regular expressions.
isWordChar(ch) == \E k \in 1..Len(WordCharacters) : charAt(WordCharacters, k) = ch

\* The case folding of the regular expressions' i flag.
toUpperChar(ch) ==
  IF \E k \in 1..Len(LowerCase) : charAt(LowerCase, k) = ch
  THEN charAt(UpperCase, CHOOSE k \in 1..Len(LowerCase) : charAt(LowerCase, k) = ch)
  ELSE ch

RECURSIVE toUpperCase(_)
toUpperCase(s) == IF s = "" THEN "" ELSE toUpperChar(charAt(s, 1)) \o toUpperCase(slice(s, 2))

\* String.prototype.trim.
RECURSIVE trimStart(_)
trimStart(s) == IF s # "" /\ charAt(s, 1) \in WhiteSpace THEN trimStart(slice(s, 2)) ELSE s

RECURSIVE trimEnd(_)
trimEnd(s) ==
  IF s # "" /\ charAt(s, Len(s)) \in WhiteSpace THEN trimEnd(SubSeq(s, 1, Len(s) - 1)) ELSE s

trim(s) == trimEnd(trimStart(s))

\* s.split('\n')
RECURSIVE splitLines(_, _)
splitLines(s, line) ==
  IF s = "" THEN <<line>>
  ELSE IF charAt(s, 1) = "\n" THEN <<line>> \o splitLines(slice(s, 2), "")
  ELSE splitLines(slice(s, 2), line \o charAt(s, 1))

\* lines.join('\n')
RECURSIVE joinLines(_)
joinLines(lines) ==
  IF lines = <<>> THEN ""
  ELSE IF Len(lines) = 1 THEN lines[1]
  ELSE lines[1] \o "\n" \o joinLines(Tail(lines))

\* Variant of the clean-up that trims the statement and keeps its comment
\* lines.
cleaned_keepsComments(current) == trim(current)

\* The clean-up of a statement before it is emitted: the lines that start
\* with "--" are dropped and the rest is trimmed.
cleaned(current) ==
  trim(joinLines(SelectSeq(splitLines(current, ""),
                           LAMBDA line : ~startsWith(trim(line), "--"))))

\* ZeusUtil.formatTemplateQuery(strings, ...values): the loop from index i on.
RECURSIVE formatTemplateQueryFrom(_, _, _, _, _)
formatTemplateQueryFrom(strings, values, i, sql, params) ==
  IF i > Len(strings) THEN [sql |-> sql, params |-> params]
  ELSE IF i <= Len(values)
  THEN formatTemplateQueryFrom(strings, values, i + 1, sql \o strings[i] \o "?",
                               Append(params, values[i]))
  ELSE formatTemplateQueryFrom(strings, values, i + 1, sql \o strings[i], params)

\* Variant of formatTemplateQuery that writes the placeholders and collects
\* no parameter.
formatTemplateQuery_noParams(strings, values) ==
  [formatTemplateQueryFrom(strings, values, 1, "", <<>>) EXCEPT !.params = <<>>]

formatTemplateQuery(strings, values) == formatTemplateQueryFrom(strings, values, 1, "", <<>>)

\* The first index from j on that does not hold a word character.
RECURSIVE wordRunEnd(_, _)
wordRunEnd(s, j) == IF j <= Len(s) /\ isWordChar(charAt(s, j)) THEN wordRunEnd(s, j + 1) ELSE j

\* matchDollarStart: the match of /^\$[a-zA-Z_0-9]*\$/ on s from index i, ""
\* for no match.
matchDollarStart(s, i) ==
  IF i <= Len(s) /\ charAt(s, i) = "$"
  THEN LET j == wordRunEnd(s, i + 1)
       IN  IF j <= Len(s) /\ charAt(s, j) = "$" THEN SubSeq(s, i, j) ELSE ""
  ELSE ""

\* nextChunk.match(/^BEGIN\b/i), nextChunk.match(/^END\b/i): the keyword,
\* in any case, followed by a word boundary.
matchesKeyword(nextChunk, keyword) ==
  /\ Len(nextChunk) >= Len(keyword)
  /\ toUpperCase(SubSeq(nextChunk, 1, Len(keyword))) = keyword
  /\ Len(nextChunk) > Len(keyword) => ~isWordChar(charAt(nextChunk, Len(keyword) + 1))

\* Variant of the test for a split that does not look at the quotes.
splitsAt_inQuotes(char, outside, blockDepth) == char = ";" /\ blockDepth = 0

\* Variant of the test for a split that does not look at the block depth.
splitsAt_anyDepth(char, outside, blockDepth) == char = ";" /\ outside

\* The test for a split: a ';' outside quotes and dollar blocks, at block
\* depth zero.
splitsAt(char, outside, blockDepth) == char = ";" /\ outside /\ blockDepth = 0

\* The local variables of splitSqlStatements before its loop; cuts, begins
\* and ends record the indexes at which the loop emitted a statement,
\* incremented blockDepth and decremented it.
SplitterStart ==
  [ statements |-> <<>>, current |-> "", inSingleQuote |-> FALSE, inDoubleQuote |-> FALSE,
    inDollarBlock |-> FALSE, dollarTag |-> "", blockDepth |-> 0, escapeNext |-> FALSE,
    cuts |-> {}, begins |-> {}, ends |-> {} ]

\* Variant of the closing test that takes any dollar tag for the end of the
\* block.
closesDollarBlock_anyTag(nextChunk, dollarTag) == matchDollarStart(nextChunk, 1) # ""

\* nextChunk.startsWith(dollarTag): the block ends where its own tag comes
\* again.
closesDollarBlock(nextChunk, dollarTag) == startsWith(nextChunk, dollarTag)

\* One pass of the loop of splitSqlStatements, at index i: the state after
\* it and the index of the next pass.
splitterStep(sqlCommands, i, st) ==
  LET char == charAt(sqlCommands, i)
      nextChunk == slice(sqlCommands, i)
      outside == ~st.inSingleQuote /\ ~st.inDoubleQuote /\ ~st.inDollarBlock
      tag == matchDollarStart(sqlCommands, i)
      append == [st EXCEPT !.current = @ \o char]
  IN  IF outside /\ tag # ""
      THEN [st |-> [st EXCEPT !.inDollarBlock = TRUE, !.dollarTag = tag, !.current = @ \o tag],
            next |-> i + Len(tag)]
      ELSE IF ~outside /\ st.inDollarBlock
      THEN IF closesDollarBlock(nextChunk, st.dollarTag)
           THEN [st |-> [st EXCEPT !.inDollarBlock = FALSE, !.current = @ \o st.dollarTag],
                 next |-> i + Len(st.dollarTag)]
           ELSE [st |-> append, next |-> i + 1]
      ELSE IF st.escapeNext
      THEN [st |-> [append EXCEPT !.escapeNext = FALSE], next |-> i + 1]
      ELSE IF char = "\\"
      THEN [st |-> [append EXCEPT !.escapeNext = TRUE], next |-> i + 1]
      ELSE IF char = "'" /\ ~st.inDoubleQuote
      THEN [st |-> [append EXCEPT !.inSingleQuote = ~@], next |-> i + 1]
      ELSE IF char = "\"" /\ ~st.inSingleQuote
      THEN [st |-> [append EXCEPT !.inDoubleQuote = ~@], next |-> i + 1]
      ELSE LET counted ==
                 IF ~outside THEN st
                 ELSE IF matchesKeyword(nextChunk, "BEGIN")
                 THEN [st EXCEPT !.blockDepth = @ + 1, !.begins = @ \cup {i}]
                 ELSE IF matchesKeyword(nextChunk, "END") /\ st.blockDepth > 0
                 THEN [st EXCEPT !.blockDepth = @ - 1, !.ends = @ \cup {i}]
                 ELSE st
           IN  IF splitsAt(char, outside, counted.blockDepth)
               THEN [st |-> [counted EXCEPT
                               !.statements = IF Len(cleaned(st.current)) > 0
                                              THEN Append(@, cleaned(st.current)) ELSE @,
                               !.current = "",
                               !.cuts = @ \cup {i}],
                     next |-> i + 1]
               ELSE [st |-> [counted EXCEPT !.current = @ \o char], next |-> i + 1]

\* The loop of splitSqlStatements from index i on.
RECURSIVE splitterLoop(_, _, _)
splitterLoop(sqlCommands, i, st) ==
  IF i > Len(sqlCommands) THEN st
  ELSE LET step == splitterStep(sqlCommands, i, st)
       IN  splitterLoop(sqlCommands, step.next, step.st)

\* The whole run of splitSqlStatements: the loop, then the rest of the text
\* emitted as the last statement.
splitterRun(sqlCommands) ==
  LET st == splitterLoop(sqlCommands, 1, SplitterStart)
  IN  [st EXCEPT !.statements = IF Len(cleaned(st.current)) > 0
                                THEN Append(@, cleaned(st.current)) ELSE @]

\* ZeusUtil.splitSqlStatements
splitSqlStatements(sqlCommands) == splitterRun(sqlCommands).statements

(***************************************************************************)
(* ZeusConnection                                                          *)
(***************************************************************************)

isOpened(c) == conns[c].opened

\* A method is entered when no provider call of the connection is awaited;
\* otherwise the step is the continuation of the method entered earlier.
atEntry(c) ==
  entryThrowErrors' = [entryThrowErrors EXCEPT ![c] = IF pending[c] = "none"
                                                      THEN conns[c].throwErrors ELSE @]

\* Variant of _dispatchError that also resets the result, as the success
\* paths of execute and batchExecute do.
dispatchError_resetsResult(c, mess) ==
  /\ conns' = [conns EXCEPT ![c] = [@ EXCEPT !.errorLast = mess, !.result = <<>>, !.resultCount = 0]]
  /\ lastRet' = [lastRet EXCEPT ![c] = IF conns[c].throwErrors THEN "thrown" ELSE "error"]
  /\ pending' = [pending EXCEPT ![c] = "none"]
  /\ atEntry(c)

\* Variant of _dispatchError that goes by the flag as it was when the method
\* was called.
dispatchError_modeAtEntry(c, mess) ==
  /\ conns' = [conns EXCEPT ![c].errorLast = mess]
  /\ lastRet' = [lastRet EXCEPT ![c] =
                   IF (IF pending[c] = "none" THEN conns[c].throwErrors ELSE entryThrowErrors[c])
                   THEN "thrown" ELSE "error"]
  /\ pending' = [pending EXCEPT ![c] = "none"]
  /\ atEntry(c)

\* _dispatchError: records the error as last error, then throws or returns it
\* according to the connection's flag as it is now.
dispatchError(c, mess) ==
  /\ conns' = [conns EXCEPT ![c].errorLast = mess]
  /\ lastRet' = [lastRet EXCEPT ![c] = IF conns[c].throwErrors THEN "thrown" ELSE "error"]
  /\ pending' = [pending EXCEPT ![c] = "none"]
  /\ atEntry(c)

\* The method reaches "await this._provider.<op>(this, ...)": the driver call is
\* issued and the method is suspended.
awaitProvider(c, op) ==
  /\ pending' = [pending EXCEPT ![c] = op]
  /\ lastRet' = [lastRet EXCEPT ![c] = "none"]
  /\ atEntry(c)
  /\ UNCHANGED conns

\* The method returns normally, leaving the connection as cn.
returnOk(c, cn) ==
  /\ conns' = [conns EXCEPT ![c] = cn]
  /\ lastRet' = [lastRet EXCEPT ![c] = "ok"]
  /\ pending' = [pending EXCEPT ![c] = "none"]
  /\ atEntry(c)

\* Variant of _resetResult that empties the buffer and keeps the count.
resetResult_keepsCount(cn) == [cn EXCEPT !.result = <<>>]

\* _resetResult: empties the buffer and zeroes the count (the cursor is not touched).
resetResult(cn) == [cn EXCEPT !.result = <<>>, !.resultCount = 0]

\* __dispose
dispose(cn) == [cn EXCEPT !.opened = FALSE, !.inTransaction = FALSE]

\* Variant of query without the isOpened() guard.
Connection_query_noOpenCheck(c, op) == awaitProvider(c, op)

\* query / queryRow / queryScalar up to the await (queryRow and queryScalar
\* start by calling query).
Connection_query(c, op) ==
  IF ~isOpened(c) THEN dispatchError(c, "notOpen")
  ELSE awaitProvider(c, op)

Connection_execute(c) ==
  IF ~isOpened(c) THEN dispatchError(c, "notOpen")
  ELSE awaitProvider(c, "execute")

\* No call of MysqlProvider.batchExecute.
NoBatch == [mode |-> "none", sql |-> "", queries |-> <<>>, results |-> <<>>]

\* Variant of batchExecute that sends the whole text whenever the DataSource
\* does not always split.
Provider_batchExecute_ignoresMultipleStatements(sqlCommands) ==
  IF ~batchExecuteAlwaysSplit
  THEN [mode |-> "whole", sql |-> sqlCommands, queries |-> <<sqlCommands>>, results |-> <<>>]
  ELSE [mode |-> "split", sql |-> sqlCommands,
        queries |-> splitSqlStatements(sqlCommands), results |-> <<>>]

\* MysqlProvider.batchExecute(conn, sqlCommands) up to its first await: the
\* whole text is one execute call when the DataSource does not always split
\* and the mysql configuration allows several statements in a call, and the
\* statements of ZeusUtil.splitSqlStatements are executed one by one otherwise.
Provider_batchExecute(sqlCommands) ==
  IF ~batchExecuteAlwaysSplit /\ multipleStatements
  THEN [mode |-> "whole", sql |-> sqlCommands, queries |-> <<sqlCommands>>, results |-> <<>>]
  ELSE [mode |-> "split", sql |-> sqlCommands,
        queries |-> splitSqlStatements(sqlCommands), results |-> <<>>]

\* batchExecute(sql) up to "await this._provider.batchExecute(this, sql)".
Connection_batchExecute(c, sql) ==
  IF ~isOpened(c) THEN dispatchError(c, "notOpen") /\ UNCHANGED batch
  ELSE /\ awaitProvider(c, "batchExecute")
       /\ batch' = [batch EXCEPT ![c] = Provider_batchExecute(sql)]

\* Variant of begin without the _inTransaction guard.
Connection_begin_noTransactionCheck(c) ==
  IF ~isOpened(c) THEN dispatchError(c, "notOpen")
  ELSE awaitProvider(c, "begin")

Connection_begin(c) ==
  IF ~isOpened(c) THEN dispatchError(c, "notOpen")
  ELSE IF conns[c].inTransaction THEN dispatchError(c, "alreadyInTx")
  ELSE awaitProvider(c, "begin")

Connection_commit(c) ==
  IF ~isOpened(c) THEN dispatchError(c, "notOpen")
  ELSE IF ~conns[c].inTransaction THEN dispatchError(c, "notInTx")
  ELSE awaitProvider(c, "commit")

\* Variant of rollback without the _inTransaction guard.
Connection_rollback_noTransactionCheck(c) ==
  IF ~isOpened(c) THEN dispatchError(c, "notOpen")
  ELSE awaitProvider(c, "rollback")

Connection_rollback(c) ==
  IF ~isOpened(c) THEN dispatchError(c, "notOpen")
  ELSE IF ~conns[c].inTransaction THEN dispatchError(c, "notInTx")
  ELSE awaitProvider(c, "rollback")

\* Variant of end that disposes a pooled connection and leaves it in the open-set.
Provider_end_keepsInOpenSet(c, from) ==
  IF usePool
  THEN /\ physBusy' = physBusy \ {conns[c].connection}
       /\ UNCHANGED openConnections
       /\ returnOk(c, dispose(conns[c]))
  ELSE /\ awaitProvider(c, from)
       /\ UNCHANGED <<physBusy, openConnections>>

\* Variant of end that does not release a pooled connection.
Provider_end_noRelease(c, from) ==
  IF usePool
  THEN /\ UNCHANGED physBusy
       /\ openConnections' = openConnections \ {c}
       /\ returnOk(c, dispose(conns[c]))
  ELSE /\ awaitProvider(c, from)
       /\ UNCHANGED <<physBusy, openConnections>>

\* MysqlProvider.end up to its first await: a pooled connection is released,
\* removed from the open-set and disposed at once; a dedicated connection's
\* physical end is awaited.  `from` tells the continuation who awaits it:
\* "close" is ZeusConnection.close, "end" a caller of provider.end(conn).
\* Nothing in end() looks at the open-set first.  What the driver does with
\* release() on a physical connection that this Connection has given back
\* already is not the source's to say: it ignores the call, or it puts the
\* physical connection on the pool's free list again.
Provider_end(c, from) ==
  IF usePool
  THEN /\ \/ physBusy' = physBusy \ {conns[c].connection}
          \/ c \notin openConnections /\ UNCHANGED physBusy
       /\ openConnections' = openConnections \ {c}
       /\ returnOk(c, dispose(conns[c]))
  ELSE /\ awaitProvider(c, from)
       /\ UNCHANGED <<physBusy, openConnections>>

\* Variant of close without the early return on a closed connection.
Connection_close_noOpenCheck(c) == Provider_end(c, "close")

\* close (disconnect, end and release only call close).
Connection_close(c) ==
  IF ~conns[c].opened
  THEN /\ returnOk(c, conns[c])
       /\ UNCHANGED <<physBusy, openConnections>>
  ELSE Provider_end(c, "close")

\* The aliases: each is "return this.close()".
Connection_disconnect(c) == Connection_close(c)
Connection_end(c) == Connection_close(c)
Connection_release(c) == Connection_close(c)

\* ---- continuations: the awaited driver call settles -----------------------

batchFrame == UNCHANGED <<dsThrowErrors, usePool, batchFlags, utilVars, disconnectVars, registryVars, pool, acquiring, timers, tasks>>
othersUnchanged == batchFrame /\ UNCHANGED batch

\* query after "await this._provider.query": an array answer replaces the
\* buffer, anything else resets it; a rejection is dispatched.  queryRow and
\* queryScalar then set the count to 1 unless query gave them an Error.
Connection_query_resume(c) ==
  /\ pending[c] \in {"query", "queryRow", "queryScalar"}
  /\ \/ \E results \in QueryResults :
          LET q == [conns[c] EXCEPT !.resultCount = Len(results), !.result = results,
                                    !.resultCursor = 0]
          IN  returnOk(c, IF pending[c] = "query" THEN q ELSE [q EXCEPT !.resultCount = 1])
     \/ LET q == resetResult(conns[c])
        IN  returnOk(c, IF pending[c] = "query" THEN q ELSE [q EXCEPT !.resultCount = 1])
     \/ dispatchError(c, "driver")
  /\ UNCHANGED <<physBusy, physTx, openConnections>>
  /\ othersUnchanged

Connection_execute_resume(c) ==
  /\ pending[c] = "execute"
  /\ \/ \E results \in ExecuteResults :
          returnOk(c, resetResult([conns[c] EXCEPT !.insertId = results.insertId,
                                                   !.affectedRows = results.affectedRows]))
     \/ dispatchError(c, "driver")
  /\ UNCHANGED <<physBusy, physTx, openConnections>>
  /\ othersUnchanged

\* Variant of the batch loop that leaves the loop at the first statement
\* that fails.
Provider_batchExecute_statement_stopsAtError(c) ==
  /\ pending[c] = "batchExecute"
  /\ Len(batch[c].results) < Len(batch[c].queries)
  /\ LET k == Len(batch[c].results) + 1
         query == batch[c].queries[k]
     IN  \/ /\ isOpened(c)
            /\ batch' = [batch EXCEPT ![c].results = Append(@, [query |-> query, outcome |-> "result"])]
         \/ batch' = [batch EXCEPT ![c].results = Append(@, [query |-> query, outcome |-> "error"]),
                                   ![c].queries = SubSeq(@, 1, k)]
  /\ UNCHANGED <<provVars, connVars, tasks>>
  /\ UNCHANGED <<dsThrowErrors, usePool, batchFlags, utilVars, disconnectVars, registryVars>>

\* MysqlProvider.batchExecute, one "await this.execute(conn, query)" settles:
\* the statement's result, or the error it was rejected with (execute rejects
\* when the connection is no longer open), is appended to the answer; in the
\* loop the next statement is then executed.
Provider_batchExecute_statement(c) ==
  /\ pending[c] = "batchExecute"
  /\ Len(batch[c].results) < Len(batch[c].queries)
  /\ LET query == batch[c].queries[Len(batch[c].results) + 1]
     IN  \/ /\ isOpened(c)
            /\ batch' = [batch EXCEPT ![c].results = Append(@, [query |-> query, outcome |-> "result"])]
         \/ batch' = [batch EXCEPT ![c].results = Append(@, [query |-> query, outcome |-> "error"])]
  /\ UNCHANGED <<provVars, connVars, tasks>>
  /\ UNCHANGED <<dsThrowErrors, usePool, batchFlags, utilVars, disconnectVars, registryVars>>

\* batchExecute after "await this._provider.batchExecute": the provider
\* catches every statement's error into its answer, so the answer is always
\* an array; it is returned (batch[c].results, in the step that returns it)
\* after the insert id, the affected rows and the result have been reset.
Connection_batchExecute_resume(c) ==
  /\ pending[c] = "batchExecute"
  /\ Len(batch[c].results) = Len(batch[c].queries)
  /\ returnOk(c, resetResult([conns[c] EXCEPT !.insertId = 0, !.affectedRows = 0]))
  /\ batch' = [batch EXCEPT ![c] = NoBatch]
  /\ UNCHANGED <<physBusy, physTx, openConnections>>
  /\ batchFrame

Connection_begin_resume(c) ==
  /\ pending[c] = "begin"
  /\ \/ /\ returnOk(c, [conns[c] EXCEPT !.inTransaction = TRUE])
        /\ physTx' = [physTx EXCEPT ![conns[c].connection] = TRUE]
     \/ /\ dispatchError(c, "beginFailed")
        /\ UNCHANGED physTx
  /\ UNCHANGED <<physBusy, openConnections>>
  /\ othersUnchanged

\* Variant of commit that gives the transaction up when the driver rejects
\* the commit.
Connection_commit_resume_clearsOnReject(c) ==
  /\ pending[c] = "commit"
  /\ \/ /\ returnOk(c, [conns[c] EXCEPT !.inTransaction = FALSE])
        /\ physTx' = [physTx EXCEPT ![conns[c].connection] = FALSE]
     \/ /\ conns' = [conns EXCEPT ![c] = [@ EXCEPT !.errorLast = "commitFailed", !.inTransaction = FALSE]]
        /\ lastRet' = [lastRet EXCEPT ![c] = IF conns[c].throwErrors THEN "thrown" ELSE "error"]
        /\ pending' = [pending EXCEPT ![c] = "none"]
        /\ atEntry(c)
        /\ UNCHANGED physTx
  /\ UNCHANGED <<physBusy, openConnections>>
  /\ othersUnchanged

Connection_commit_resume(c) ==
  /\ pending[c] = "commit"
  /\ \/ /\ returnOk(c, [conns[c] EXCEPT !.inTransaction = FALSE])
        /\ physTx' = [physTx EXCEPT ![conns[c].connection] = FALSE]
     \/ /\ dispatchError(c, "commitFailed")
        /\ UNCHANGED physTx
  /\ UNCHANGED <<physBusy, openConnections>>
  /\ othersUnchanged

Connection_rollback_resume(c) ==
  /\ pending[c] = "rollback"
  /\ \/ /\ returnOk(c, [conns[c] EXCEPT !.inTransaction = FALSE])
        /\ physTx' = [physTx EXCEPT ![conns[c].connection] = FALSE]
     \/ /\ dispatchError(c, "rollbackFailed")
        /\ UNCHANGED physTx
  /\ UNCHANGED <<physBusy, openConnections>>
  /\ othersUnchanged

\* MysqlProvider.end of a dedicated connection after "await singleConn.end()":
\* on success the connection leaves the open-set and is disposed; a driver
\* error is rethrown, and close() dispatches it.
Provider_end_resume(c) ==
  /\ pending[c] = "close"
  /\ \/ /\ physBusy' = physBusy \ {conns[c].connection}
        /\ physTx' = [physTx EXCEPT ![conns[c].connection] = FALSE]
        /\ openConnections' = openConnections \ {c}
        /\ returnOk(c, dispose(conns[c]))
     \/ /\ dispatchError(c, "close")
        /\ UNCHANGED <<physBusy, physTx, openConnections>>
  /\ othersUnchanged

\* The same continuation when provider.end(conn) was called directly: the
\* driver's error is rethrown to that caller as it is.
Provider_end_direct_resume(c) ==
  /\ pending[c] = "end"
  /\ \/ /\ physBusy' = physBusy \ {conns[c].connection}
        /\ physTx' = [physTx EXCEPT ![conns[c].connection] = FALSE]
        /\ openConnections' = openConnections \ {c}
        /\ returnOk(c, dispose(conns[c]))
     \/ /\ lastRet' = [lastRet EXCEPT ![c] = "thrown"]
        /\ pending' = [pending EXCEPT ![c] = "none"]
        /\ UNCHANGED <<conns, entryThrowErrors, physBusy, physTx, openConnections>>
  /\ othersUnchanged

\* ---- the cursor ----------------------------------------------------------

hasRows(cn) == cn.resultCursor < cn.resultCount

\* What the getters and next() hand back when there is no row: null, and the
\* undefined of an array read past the end.  Rows themselves are 1, 2, ...
Null == 0
UndefinedRow == 0 - 1

\* this._result[k]: the array is indexed from 0, and a read past its end
\* yields undefined.
elementAt(result, k) == IF k + 1 \in 1..Len(result) THEN result[k + 1] ELSE UndefinedRow

\* get row: the row under the cursor, or null; the cursor is not written.
row(cn) == IF cn.resultCursor < cn.resultCount THEN elementAt(cn.result, cn.resultCursor) ELSE Null

\* Variant of next() that hands back the row but leaves the cursor alone.
next_keepsCursor(cn) == [ret |-> row(cn), cn |-> cn]

\* next(): "return this._result[this._resultCursor++]" while the cursor is
\* below the count, null otherwise.
next(cn) ==
  IF cn.resultCursor < cn.resultCount
  THEN [ret |-> elementAt(cn.result, cn.resultCursor), cn |-> [cn EXCEPT !.resultCursor = @ + 1]]
  ELSE [ret |-> Null, cn |-> cn]

Connection_next(c) ==
  /\ conns' = [conns EXCEPT ![c] = next(@).cn]
  /\ UNCHANGED <<pending, lastRet, entryThrowErrors>>

Connection_resetCursor(c) ==
  /\ conns' = [conns EXCEPT ![c].resultCursor = 0]
  /\ UNCHANGED <<pending, lastRet, entryThrowErrors>>

\* set throwErrors (the connection's own setter)
Connection_setThrowErrors(c, value) ==
  /\ conns' = [conns EXCEPT ![c].throwErrors = value]
  /\ UNCHANGED <<pending, lastRet, entryThrowErrors>>

(***************************************************************************)
(* MysqlProvider.start                                                     *)
(***************************************************************************)

\* Variant of start that arms no timeout.
Provider_start_noTimeout(t) ==
  /\ pool' = (pool \/ usePool)
  /\ UNCHANGED timers
  /\ acquiring' = acquiring \cup {t}

\* start() up to the driver call: with pooling the pool is created on first
\* use, the timeout is armed and getConnection is asked; without, a dedicated
\* connection is created and connect is asked.
Provider_start(t) ==
  /\ pool' = (pool \/ usePool)
  /\ timers' = IF usePool THEN timers \cup {t} ELSE timers
  /\ acquiring' = acquiring \cup {t}

\* The promise returned by start() is rejected: every DataSource method awaits
\* connect() outside any try, so the rejection leaves the method as a throw.
startRejected(t) ==
  IF tasks[t].pc = "start"
  THEN tasks' = [tasks EXCEPT ![t].pc = "done", ![t].ret = "thrown"]
  ELSE UNCHANGED tasks

\* The promise is resolved with the new connection: connect() hands it to the
\* caller, the other methods go on with it.
startResolved(t) ==
  IF tasks[t].pc = "start"
  THEN IF tasks[t].kind = "connect"
       THEN tasks' = [tasks EXCEPT ![t].pc = "done", ![t].ret = "conn"]
       ELSE tasks' = [tasks EXCEPT ![t].pc = "connected"]
  ELSE UNCHANGED tasks

\* The getConnection / connect callback fires without error: the timeout is
\* cleared, the ZeusConnection is built around the physical connection, gets
\* the DataSource's throwErrors, joins the open-set, and the promise is resolved.
Provider_start_callback(t) ==
  /\ t \in acquiring
  /\ usePool => ~poolClosed
  /\ \E h \in (IF usePool THEN PoolHandles ELSE {ConnectionLimit + t}) \ physBusy :
       /\ physBusy' = physBusy \cup {h}
       /\ conns' = [conns EXCEPT ![t] = [ZeusConnection(h) EXCEPT !.throwErrors = dsThrowErrors]]
  /\ acquiring' = acquiring \ {t}
  /\ timers' = timers \ {t}
  /\ openConnections' = openConnections \cup {t}
  /\ startResolved(t)
  /\ UNCHANGED <<dsThrowErrors, usePool, batchFlags, batch, utilVars, disconnectVars, registryVars, pool, physTx, pending, lastRet, entryThrowErrors>>

\* The callback fires with an error: the timeout is cleared and the promise rejected.
Provider_start_error(t) ==
  /\ t \in acquiring
  /\ acquiring' = acquiring \ {t}
  /\ timers' = timers \ {t}
  /\ startRejected(t)
  /\ UNCHANGED <<dsThrowErrors, usePool, batchFlags, batch, utilVars, disconnectVars, registryVars, pool, physBusy, physTx, openConnections, connVars>>

\* The pool-acquire timeout fires first: the promise is rejected; the
\* getConnection request stays queued in the pool.
Provider_start_timeout(t) ==
  /\ t \in timers
  /\ timers' = timers \ {t}
  /\ startRejected(t)
  /\ UNCHANGED <<dsThrowErrors, usePool, batchFlags, batch, utilVars, disconnectVars, registryVars, pool, physBusy, physTx, acquiring, openConnections, connVars>>

(***************************************************************************)
(* MysqlProvider.disconnectAll                                             *)
(***************************************************************************)

\* "for (const conn of this._openConnections) { await this.end(conn); }" from
\* the point where the loop asks the set for its next connection, up to the
\* next await, with the open-set, the connections and the physical
\* connections in use as given; the loop over, "if (this._pool) await
\* pool.end()".  Connections added while the loop is suspended are visited too.
disconnectAllFrom(open, cs, busy) ==
  IF open # {}
  THEN \E c \in open :
         IF usePool
         THEN /\ physBusy' = busy \ {cs[c].connection}
              /\ openConnections' = open \ {c}
              /\ conns' = [cs EXCEPT ![c] = dispose(@)]
              /\ disconnecting' = [pc |-> "loop", conn |-> 0]
              /\ UNCHANGED poolClosed
         ELSE /\ physBusy' = busy
              /\ openConnections' = open
              /\ conns' = cs
              /\ disconnecting' = [pc |-> "end", conn |-> c]
              /\ UNCHANGED poolClosed
  ELSE /\ physBusy' = busy
       /\ openConnections' = open
       /\ conns' = cs
       /\ IF pool
          THEN disconnecting' = [pc |-> "poolEnd", conn |-> 0] /\ poolClosed' = TRUE
          ELSE disconnecting' = [pc |-> "done", conn |-> 0] /\ UNCHANGED poolClosed

disconnectAllFrame ==
  UNCHANGED <<dsThrowErrors, usePool, batchFlags, batch, utilVars, pool, acquiring, timers, pending, lastRet,
              entryThrowErrors, tasks, registryVars>>

\* disconnectAll() is called (DataSource.disconnectAll only forwards to it).
Provider_disconnectAll ==
  /\ disconnecting.pc = "idle"
  /\ disconnectAllFrom(openConnections, conns, physBusy)
  /\ UNCHANGED physTx
  /\ disconnectAllFrame

\* The await of a pooled connection's end() is over: the loop goes on.
Provider_disconnectAll_next ==
  /\ disconnecting.pc = "loop"
  /\ disconnectAllFrom(openConnections, conns, physBusy)
  /\ UNCHANGED physTx
  /\ disconnectAllFrame

\* The physical end of a dedicated connection settles: end() removes and
\* disposes the connection and the loop goes on; a driver error is rethrown
\* by end() and leaves disconnectAll().
Provider_disconnectAll_endResume ==
  /\ disconnecting.pc = "end"
  /\ LET c == disconnecting.conn
         h == conns[c].connection
     IN  \/ /\ disconnectAllFrom(openConnections \ {c}, [conns EXCEPT ![c] = dispose(@)],
                                 physBusy \ {h})
            /\ physTx' = [physTx EXCEPT ![h] = FALSE]
         \/ /\ disconnecting' = [pc |-> "failed", conn |-> 0]
            /\ UNCHANGED <<physBusy, physTx, openConnections, conns, poolClosed>>
  /\ disconnectAllFrame

\* Variant of the continuation below that keeps the ended pool.
Provider_disconnectAll_poolEndResume_keepsPool ==
  /\ disconnecting.pc = "poolEnd"
  /\ disconnecting' = [pc |-> "done", conn |-> 0]
  /\ UNCHANGED <<dsThrowErrors, usePool, batchFlags, batch, utilVars, provVars, connVars, tasks, poolClosed, registryVars>>

\* pool.end() settles: "this._pool = undefined" and disconnectAll() returns;
\* the ended pool's physical connections and queued requests are gone with
\* it.  A driver error leaves disconnectAll() with the ended pool in place.
Provider_disconnectAll_poolEndResume ==
  /\ disconnecting.pc = "poolEnd"
  /\ \/ /\ pool' = FALSE
        /\ poolClosed' = FALSE
        /\ physBusy' = physBusy \ PoolHandles
        /\ physTx' = [h \in Handles |-> IF h \in PoolHandles THEN FALSE ELSE physTx[h]]
        /\ acquiring' = {}
        /\ disconnecting' = [pc |-> "done", conn |-> 0]
        /\ UNCHANGED <<timers, openConnections>>
     \/ /\ disconnecting' = [pc |-> "failed", conn |-> 0]
        /\ UNCHANGED <<provVars, poolClosed>>
  /\ UNCHANGED <<dsThrowErrors, usePool, batchFlags, batch, utilVars, connVars, tasks, registryVars>>

(***************************************************************************)
(* ZeusDataSource                                                          *)
(***************************************************************************)

\* Variant of the setter that only stores the value.
DataSource_setThrowErrors_noCascade(value) ==
  /\ dsThrowErrors' = value
  /\ UNCHANGED <<usePool, batchFlags, batch, utilVars, disconnectVars, registryVars, provVars, connVars, tasks>>

\* set throwErrors: stores the value and applies it to every connection of
\* the provider's open-set (applyToConnections).
DataSource_setThrowErrors(value) ==
  /\ dsThrowErrors' = value
  /\ conns' = [c \in Tasks |-> IF c \in openConnections
                                THEN [conns[c] EXCEPT !.throwErrors = value]
                                ELSE conns[c]]
  /\ UNCHANGED <<usePool, batchFlags, batch, utilVars, disconnectVars, registryVars, provVars, pending, lastRet, entryThrowErrors, tasks>>

\* connect(), begin() and the single-shot methods all start with
\* "await this.connect()", which is provider.start().
DataSource_call(t, kind) ==
  /\ tasks[t].pc = "idle"
  /\ tasks' = [tasks EXCEPT ![t] = [kind |-> kind, pc |-> "start", ret |-> "none"]]
  /\ Provider_start(t)
  /\ UNCHANGED <<dsThrowErrors, usePool, batchFlags, batch, utilVars, disconnectVars, registryVars, physBusy, physTx, openConnections, connVars>>

\* The connection's method a single-shot DataSource method calls.
singleShotCall(c, kind) ==
  CASE kind = "execute"      -> Connection_execute(c) /\ UNCHANGED batch
    [] kind = "batchExecute" -> \E sql \in BatchInputs : Connection_batchExecute(c, sql)
    [] OTHER                 -> Connection_query(c, kind) /\ UNCHANGED batch

\* query / queryRow / queryScalar / execute / batchExecute after connect():
\* "const results = await conn.<method>(sql, params)".
DataSource_singleShot_afterConnect(t) ==
  /\ tasks[t].pc = "connected"
  /\ tasks[t].kind \in SingleShot
  /\ singleShotCall(t, tasks[t].kind)
  /\ tasks' = [tasks EXCEPT ![t].pc = "op"]
  /\ UNCHANGED <<dsThrowErrors, usePool, batchFlags, utilVars, disconnectVars, registryVars, provVars>>

\* ... after the connection's method came back: a throw leaves the DataSource
\* method at once; otherwise "await conn.close()" is reached.
DataSource_singleShot_afterOp(t) ==
  /\ tasks[t].pc = "op"
  /\ tasks[t].kind \in SingleShot
  /\ pending[t] = "none"
  /\ IF lastRet[t] = "thrown"
     THEN /\ tasks' = [tasks EXCEPT ![t].pc = "done", ![t].ret = "thrown"]
          /\ UNCHANGED <<connVars, physBusy, openConnections>>
     ELSE /\ tasks' = [tasks EXCEPT ![t].pc = "close",
                                    ![t].ret = IF lastRet[t] = "error" THEN "error" ELSE "value"]
          /\ Connection_close(t)
  /\ UNCHANGED <<dsThrowErrors, usePool, batchFlags, batch, utilVars, disconnectVars, registryVars, pool, physTx, acquiring, timers>>

\* ... after close() came back: "return results", unless close() threw.
DataSource_afterClose(t) ==
  /\ tasks[t].pc = "close"
  /\ pending[t] = "none"
  /\ tasks' = [tasks EXCEPT ![t].pc = "done",
                            ![t].ret = IF lastRet[t] = "thrown" THEN "thrown" ELSE @]
  /\ UNCHANGED <<dsThrowErrors, usePool, batchFlags, batch, utilVars, disconnectVars, registryVars, provVars, connVars>>

\* begin() after connect(): "const result = await conn.begin()".
DataSource_begin_afterConnect(t) ==
  /\ tasks[t].pc = "connected"
  /\ tasks[t].kind = "begin"
  /\ Connection_begin(t)
  /\ tasks' = [tasks EXCEPT ![t].pc = "op"]
  /\ UNCHANGED <<dsThrowErrors, usePool, batchFlags, batch, utilVars, disconnectVars, registryVars, provVars>>

\* ... after conn.begin() came back: a returned Error closes the connection
\* and is returned; no Error returns the connection; a throw leaves begin().
DataSource_begin_afterOp(t) ==
  /\ tasks[t].pc = "op"
  /\ tasks[t].kind = "begin"
  /\ pending[t] = "none"
  /\ CASE lastRet[t] = "thrown" ->
            /\ tasks' = [tasks EXCEPT ![t].pc = "done", ![t].ret = "thrown"]
            /\ UNCHANGED <<connVars, physBusy, openConnections>>
       [] lastRet[t] = "error" ->
            /\ tasks' = [tasks EXCEPT ![t].pc = "close", ![t].ret = "error"]
            /\ Connection_close(t)
       [] OTHER ->
            /\ tasks' = [tasks EXCEPT ![t].pc = "done", ![t].ret = "conn"]
            /\ UNCHANGED <<connVars, physBusy, openConnections>>
  /\ UNCHANGED <<dsThrowErrors, usePool, batchFlags, batch, utilVars, disconnectVars, registryVars, pool, physTx, acquiring, timers>>

(***************************************************************************)
(* ZeusDB: the registry                                                    *)
(***************************************************************************)

\* The values of "id" and of identifiers: a string, or undefined (the key is
\* absent).
Undefined == [type |-> "undefined", value |-> ""]
Str(v) == [type |-> "string", value |-> v]

\* String(x)
String(x) == IF x.type = "undefined" THEN "undefined" ELSE x.value

\* The configurations and schemas handed to registerDataSource: the id, whether
\* there is a "mysql" section, and the database that section names ("": none).
ConfigIds == {Undefined, Str(""), Str("a"), Str("a.s")}
Schemas == {"", "s"}
Configs == [id : ConfigIds, mysql : BOOLEAN, database : {"", "s"}]

\* ZeusUtil.formatDatasourceId; uuid is the text ZeusUtil.uuid() generates.
formatDatasourceId(id, schema, uuid) ==
  LET strId == String(id)
  IN  IF Len(strId) > 0
      THEN strId \o (IF schema # "" THEN "." \o schema ELSE "")
      ELSE "!" \o uuid

\* ZeusUtil.formatDatasourceIdForLookup (schema "" stands for undefined).
formatDatasourceIdForLookup(id, schema) ==
  LET strId == String(id)
  IN  IF Len(strId) > 0 /\ SubSeq(strId, 1, 1) = "!" THEN strId
      ELSE IF \E i \in 1..Len(strId) : SubSeq(strId, i, i) = "." THEN strId
      ELSE strId \o (IF schema # "" THEN "." \o schema ELSE "")

\* BaseProvider._formatConfig(config.mysql, schema): the database of the
\* mysql section when the provider has been constructed; the section itself
\* is changed, so whoever constructs from it again finds this database in it.
formatConfig(config, schema) ==
  IF schema # "" /\ config.database = "" THEN schema ELSE config.database

\* new ZeusDataSource(config, schema), the n-th object constructed; its schema
\* is the database of its provider's configuration.
ZeusDataSource(config, schema, n) ==
  [ id |-> formatDatasourceId(config.id, schema, ToString(n)),
    instance |-> n, schema |-> formatConfig(config, schema) ]

NoDataSource == [id |-> "", instance |-> 0, schema |-> ""]

\* Variant of registerDataSource that stores the new DataSource whether or
\* not the identifier is taken.
registerDataSource_overwrites(reg, n, config, schema) ==
  LET dataSource == ZeusDataSource(config, schema, n + 1)
  IN  IF ~config.mysql
      THEN [how |-> "thrown", reg |-> reg, dataSource |-> NoDataSource]
      ELSE [how |-> "returned", reg |-> (dataSource.id :> dataSource) @@ reg,
            dataSource |-> dataSource]

\* registerDataSource on the registry reg after n constructions: the new
\* ZeusDataSource is constructed first (the constructor throws 'Unsupported
\* database configuration' without a provider section); then a DataSource
\* already stored under the identifier is returned, otherwise the new one is
\* stored and returned.
registerDataSource(reg, n, config, schema) ==
  LET dataSource == ZeusDataSource(config, schema, n + 1)
  IN  IF ~config.mysql
      THEN [how |-> "thrown", reg |-> reg, dataSource |-> NoDataSource]
      ELSE IF dataSource.id \in DOMAIN reg
      THEN [how |-> "returned", reg |-> reg, dataSource |-> reg[dataSource.id]]
      ELSE [how |-> "returned", reg |-> (dataSource.id :> dataSource) @@ reg,
            dataSource |-> dataSource]

\* What the rest of the program keeps when the registry is called.
registryFrame ==
  UNCHANGED <<dsThrowErrors, usePool, batchFlags, batch, utilVars, provVars, connVars, tasks,
              disconnectVars, configFile>>

\* The registry becomes reg: the DataSources new in it have no disconnectAll
\* running.
registryBecomes(reg) ==
  /\ dataSources' = reg
  /\ dsDisconnect' = [d \in DOMAIN reg |->
                        IF d \in DOMAIN dsDisconnect THEN dsDisconnect[d] ELSE "idle"]

\* A call of ZeusDB.registerDataSource(config, schema).
ZeusDB_registerDataSource(config, schema) ==
  /\ constructed < MaxDataSources
  /\ constructed' = constructed + 1
  /\ LET r == registerDataSource(dataSources, constructed, config, schema)
     IN  /\ registryBecomes(r.reg)
         /\ registerRet' = [how |-> r.how, instance |-> r.dataSource.instance]
  /\ UNCHANGED <<registryCall, getRet, initRet>>
  /\ registryFrame

\* The entries of "datasources" in the configuration file: a configuration
\* and the schemas it declares.
FileIds == {Str("a")}
FileSchemas == {<<>>, <<"s">>, <<"s", "t">>}
FileEntries == [id : FileIds, mysql : {TRUE}, database : {"", "s"}, schemas : FileSchemas]

\* The longest "datasources" of a configuration file.
MaxFileEntries == 2

\* The configuration file: absent (or unreadable, or without "datasources"),
\* or its "datasources" in the order Object.entries gives them.
NoConfigFile == [found |-> FALSE, datasources |-> <<>>]
ConfigFiles ==
  {NoConfigFile} \cup
  { [found |-> TRUE, datasources |-> d] :
      d \in UNION { [1..k -> FileEntries] : k \in 0..MaxFileEntries } }

\* ZeusDB.init, the loop "for (const schema of ds.schemas)" from the k-th
\* schema on, the mysql section of ds naming database by now.
RECURSIVE initSchemas(_, _, _, _, _)
initSchemas(ds, k, database, reg, n) ==
  IF k > Len(ds.schemas) THEN [how |-> "returned", reg |-> reg, n |-> n]
  ELSE LET config == [id |-> ds.id, mysql |-> ds.mysql, database |-> database]
           r == registerDataSource(reg, n, config, ds.schemas[k])
       IN  IF r.how = "thrown" THEN [how |-> "unsupported", reg |-> r.reg, n |-> n + 1]
           ELSE IF r.dataSource.schema = "" THEN [how |-> "noSchema", reg |-> r.reg, n |-> n + 1]
           ELSE initSchemas(ds, k + 1, formatConfig(config, ds.schemas[k]), r.reg, n + 1)

\* ZeusDB.init, the loop over the entries of "datasources" from the j-th on.
RECURSIVE initEntries(_, _, _, _)
initEntries(datasources, j, reg, n) ==
  IF j > Len(datasources) THEN [how |-> "returned", reg |-> reg, n |-> n]
  ELSE LET ds == datasources[j]
           config == [id |-> ds.id, mysql |-> ds.mysql, database |-> ds.database]
           r == registerDataSource(reg, n, config, "")
           done == IF Len(ds.schemas) > 0 THEN initSchemas(ds, 1, ds.database, reg, n)
                   ELSE IF r.how = "thrown"
                   THEN [how |-> "unsupported", reg |-> r.reg, n |-> n + 1]
                   ELSE IF r.dataSource.schema = ""
                   THEN [how |-> "noSchema", reg |-> r.reg, n |-> n + 1]
                   ELSE [how |-> "returned", reg |-> r.reg, n |-> n + 1]
       IN  IF done.how # "returned" THEN done
           ELSE initEntries(datasources, j + 1, done.reg, done.n)

\* Variant of init that registers only the first declared schema of an entry.
init_firstSchemaOnly(file, reg, n) ==
  IF ~file.found THEN [how |-> "noFile", reg |-> reg, n |-> n]
  ELSE initEntries([j \in 1..Len(file.datasources) |->
                      [file.datasources[j] EXCEPT !.schemas = IF @ = <<>> THEN @ ELSE <<@[1]>>]], 1, reg, n)

\* ZeusDB.init() on the registry reg after n constructions: it throws when the
\* file is not there, cannot be parsed or has no "datasources"; it registers
\* every entry once per declared schema, or once without a schema, and throws
\* as soon as a registration gives a DataSource without a schema.
init(file, reg, n) ==
  IF ~file.found THEN [how |-> "noFile", reg |-> reg, n |-> n]
  ELSE initEntries(file.datasources, 1, reg, n)

\* A call of ZeusDB.init().
ZeusDB_init ==
  LET r == init(configFile, dataSources, constructed)
  IN  /\ r.n <= MaxDataSources
      /\ registryBecomes(r.reg)
      /\ constructed' = r.n
      /\ initRet' = [how |-> r.how, before |-> DOMAIN dataSources]
      /\ UNCHANGED <<registryCall, getRet, registerRet>>
      /\ registryFrame

\* Variant of getDataSource that runs init() again after the second miss.
RECURSIVE getDataSourceFrom_initsTwice(_, _, _, _, _, _, _)
getDataSourceFrom_initsTwice(identifier, schema, internalCounter, file, reg, n, inits) ==
  LET exact == /\ identifier.type = "string"
               /\ identifier.value \in DOMAIN reg
               /\ schema # ""
               /\ reg[identifier.value].schema = schema
      key == formatDatasourceIdForLookup(identifier, schema)
      answer(how, dataSource) ==
        [how |-> how, dataSource |-> dataSource, reg |-> reg, n |-> n, inits |-> inits]
  IN  IF exact THEN answer("returned", reg[identifier.value])
      ELSE IF key \in DOMAIN reg THEN answer("returned", reg[key])
      ELSE IF internalCounter > 1 THEN answer("notFound", NoDataSource)
      ELSE LET i == init(file, reg, n)
           IN  IF i.how # "returned"
               THEN [how |-> i.how, dataSource |-> NoDataSource, reg |-> i.reg, n |-> i.n,
                     inits |-> inits + 1]
               ELSE getDataSourceFrom_initsTwice(identifier, schema, internalCounter + 1, file,
                                                 i.reg, i.n, inits + 1)

\* ZeusDB.getDataSource(identifier, schema, _internalCounter) on the registry
\* reg after n constructions (schema "" stands for undefined): the DataSource
\* stored under the identifier itself if its schema is the one asked for,
\* else the one stored under formatDatasourceIdForLookup(identifier, schema);
\* if there is none, init() and the same lookups once more, and after that
\* 'Data source not found'.  inits counts the calls of init().
RECURSIVE getDataSourceFrom(_, _, _, _, _, _, _)
getDataSourceFrom(identifier, schema, internalCounter, file, reg, n, inits) ==
  LET exact == /\ identifier.type = "string"
               /\ identifier.value \in DOMAIN reg
               /\ schema # ""
               /\ reg[identifier.value].schema = schema
      key == formatDatasourceIdForLookup(identifier, schema)
      answer(how, dataSource) ==
        [how |-> how, dataSource |-> dataSource, reg |-> reg, n |-> n, inits |-> inits]
  IN  IF exact THEN answer("returned", reg[identifier.value])
      ELSE IF key \in DOMAIN reg THEN answer("returned", reg[key])
      ELSE IF internalCounter > 0 THEN answer("notFound", NoDataSource)
      ELSE LET i == init(file, reg, n)
           IN  IF i.how # "returned"
               THEN [how |-> i.how, dataSource |-> NoDataSource, reg |-> i.reg, n |-> i.n,
                     inits |-> inits + 1]
               ELSE getDataSourceFrom(identifier, schema, internalCounter + 1, file,
                                      i.reg, i.n, inits + 1)

\* A call of ZeusDB.getDataSource(identifier, schema).
ZeusDB_getDataSource(identifier, schema) ==
  LET r == getDataSourceFrom(identifier, schema, 0, configFile, dataSources, constructed, 0)
  IN  /\ r.n <= MaxDataSources
      /\ registryBecomes(r.reg)
      /\ constructed' = r.n
      /\ getRet' = [how |-> r.how, id |-> r.dataSource.id, instance |-> r.dataSource.instance,
                    inits |-> r.inits]
      /\ UNCHANGED <<registryCall, registerRet, initRet>>
      /\ registryFrame

\* getDataSource(identifier) as disconnectAll calls it (no schema): the first
\* lookup needs "source.schema == undefined" and so never answers; the second
\* looks up formatDatasourceIdForLookup(identifier).
getDataSource(identifier) == formatDatasourceIdForLookup(Str(identifier), "")

\* Variant of disconnectAll that disconnects only the first DataSource it finds.
ZeusDB_disconnectAll_onlyOne(identifier) ==
  /\ registryCall.pc = "idle"
  /\ identifier # "" => getDataSource(identifier) \in DOMAIN dataSources
  /\ LET targets == IF identifier # "" THEN {getDataSource(identifier)}
                    ELSE IF DOMAIN dataSources = {} THEN {}
                    ELSE {CHOOSE d \in DOMAIN dataSources : TRUE}
     IN  /\ dsDisconnect' = [d \in DOMAIN dsDisconnect |->
                                IF d \in targets THEN "running" ELSE dsDisconnect[d]]
         /\ registryCall' = [pc |-> IF targets = {} THEN "returned" ELSE "awaiting",
                             targets |-> IF identifier # "" THEN targets ELSE DOMAIN dataSources,
                             reported |-> {}]
  /\ UNCHANGED <<dsThrowErrors, usePool, batchFlags, batch, utilVars, provVars, connVars, tasks, disconnectVars,
                 dataSources, constructed, registerRet, configFile, getRet, initRet>>

\* ZeusDB.disconnectAll(identifier?) up to "await Promise.all(promises)": with
\* an identifier (a non-empty one) the DataSource found for it, without one
\* every registered DataSource, has its disconnectAll() called.  The
\* identifier is one that getDataSource finds.
ZeusDB_disconnectAll(identifier) ==
  /\ registryCall.pc = "idle"
  /\ identifier # "" => getDataSource(identifier) \in DOMAIN dataSources
  /\ LET targets == IF identifier # "" THEN {getDataSource(identifier)}
                    ELSE DOMAIN dataSources
     IN  /\ dsDisconnect' = [d \in DOMAIN dsDisconnect |->
                                IF d \in targets THEN "running" ELSE dsDisconnect[d]]
         /\ registryCall' = [pc |-> IF targets = {} THEN "returned" ELSE "awaiting",
                             targets |-> targets, reported |-> {}]
  /\ UNCHANGED <<dsThrowErrors, usePool, batchFlags, batch, utilVars, provVars, connVars, tasks, disconnectVars,
                 dataSources, constructed, registerRet, configFile, getRet, initRet>>

\* The disconnectAll() of DataSource d settles: it returns, or it throws (an
\* end() or pool.end() was rejected).  Promise.all rejects with the first
\* rejection, as soon as it happens, and resolves when every promise has.
DataSource_disconnectAll_settles(d) ==
  /\ d \in DOMAIN dsDisconnect
  /\ dsDisconnect[d] = "running"
  /\ \E outcome \in {"resolved", "rejected"} :
       /\ dsDisconnect' = [dsDisconnect EXCEPT ![d] = outcome]
       /\ registryCall' =
            IF registryCall.pc # "awaiting" THEN registryCall
            ELSE IF outcome = "rejected"
            THEN [registryCall EXCEPT !.pc = "thrown", !.reported = {d}]
            ELSE IF \A e \in registryCall.targets \ {d} : dsDisconnect[e] = "resolved"
            THEN [registryCall EXCEPT !.pc = "returned"]
            ELSE registryCall
  /\ UNCHANGED <<dsThrowErrors, usePool, batchFlags, batch, utilVars, provVars, connVars, tasks, disconnectVars,
                 dataSources, constructed, registerRet, configFile, getRet, initRet>>

(***************************************************************************)
(* The caller that holds a connection (returned by connect() or begin())   *)
(* and is not inside one of its methods calls a method of it.              *)
(***************************************************************************)

Held(c) == tasks[c].pc = "done" /\ tasks[c].ret = "conn" /\ pending[c] = "none"

callerFrame == UNCHANGED <<dsThrowErrors, usePool, batchFlags, batch, utilVars, disconnectVars, registryVars, provVars, tasks>>

User_query(c) == Held(c) /\ (\E op \in {"query", "queryRow", "queryScalar"} : Connection_query(c, op)) /\ callerFrame
User_execute(c) == Held(c) /\ Connection_execute(c) /\ callerFrame
User_batchExecute(c) ==
  /\ Held(c)
  /\ \E sql \in BatchInputs : Connection_batchExecute(c, sql)
  /\ UNCHANGED <<dsThrowErrors, usePool, batchFlags, utilVars, disconnectVars, registryVars, provVars, tasks>>
User_begin(c) == Held(c) /\ Connection_begin(c) /\ callerFrame
User_commit(c) == Held(c) /\ Connection_commit(c) /\ callerFrame
User_rollback(c) == Held(c) /\ Connection_rollback(c) /\ callerFrame
User_close(c) ==
  /\ Held(c)
  /\ \/ Connection_close(c)
     \/ Connection_disconnect(c)
     \/ Connection_end(c)
     \/ Connection_release(c)
  /\ UNCHANGED <<dsThrowErrors, usePool, batchFlags, batch, utilVars, disconnectVars, registryVars, pool, physTx, acquiring, timers, tasks>>
\* provider.end(conn) called by the holder itself (conn.provider is public).
User_providerEnd(c) ==
  /\ Held(c)
  /\ Provider_end(c, "end")
  /\ UNCHANGED <<dsThrowErrors, usePool, batchFlags, batch, utilVars, disconnectVars, registryVars, pool, physTx, acquiring, timers, tasks>>
User_next(c) == Held(c) /\ Connection_next(c) /\ callerFrame
User_resetCursor(c) == Held(c) /\ Connection_resetCursor(c) /\ callerFrame
\* The flag can be set by whoever has the object, also while a method of the
\* connection is awaiting its I/O.
User_setThrowErrors(c) ==
  /\ tasks[c].pc = "done" /\ tasks[c].ret = "conn"
  /\ \E value \in BOOLEAN : Connection_setThrowErrors(c, value)
  /\ callerFrame

\* A ZeusConnection's in-memory state is owned by the one task that holds it,
\* and connections meet only in the provider (pool, open-set) and in the
\* DataSource's throwErrors setter.  So the whole method set is exercised on
\* the connection of one caller (SpecConnection), and several callers at once
\* go through the DataSource methods and close (Spec).
\* The program when it has been loaded: no connection, no pool, nothing
\* registered, no call under way.
Started ==
  /\ dsThrowErrors \in BOOLEAN
  /\ usePool \in BOOLEAN
  /\ pool = FALSE
  /\ physBusy = {}
  /\ physTx = [h \in Handles |-> FALSE]
  /\ acquiring = {}
  /\ timers = {}
  /\ openConnections = {}
  /\ conns = [c \in Tasks |-> NoConnection]
  /\ pending = [c \in Tasks |-> "none"]
  /\ lastRet = [c \in Tasks |-> "none"]
  /\ entryThrowErrors = [c \in Tasks |-> TRUE]
  /\ tasks = [t \in Tasks |-> [kind |-> "none", pc |-> "idle", ret |-> "none"]]
  /\ disconnecting = [pc |-> "idle", conn |-> 0]
  /\ poolClosed = FALSE
  /\ dataSources = <<>>
  /\ constructed = 0
  /\ registerRet = [how |-> "none", instance |-> 0]
  /\ dsDisconnect = <<>>
  /\ registryCall = [pc |-> "idle", targets |-> {}, reported |-> {}]
  /\ getRet = [how |-> "none", id |-> "", instance |-> 0, inits |-> 0]
  /\ initRet = [how |-> "none", before |-> {}]
  /\ batch = [c \in Tasks |-> NoBatch]

\* No call of ZeusUtil.formatTemplateQuery, none of ZeusUtil.splitSqlStatements.
NoTemplateCall == [strings |-> <<>>, values |-> <<>>, called |-> FALSE, sql |-> "", params |-> <<>>]
NoSplitCall == [sql |-> "", called |-> FALSE, run |-> SplitterStart]

\* The defaults: no configuration file, batchExecuteAlwaysSplit true
\* (ZeusDataSource's constructor), multipleStatements false (the driver's).
Init ==
  /\ Started
  /\ configFile = NoConfigFile
  /\ batchExecuteAlwaysSplit = TRUE
  /\ multipleStatements = FALSE
  /\ templateCall = NoTemplateCall
  /\ splitCall = NoSplitCall

\* Every setting of batchExecuteAlwaysSplit and multipleStatements.
InitConnection ==
  /\ Started
  /\ configFile = NoConfigFile
  /\ batchExecuteAlwaysSplit \in BOOLEAN
  /\ multipleStatements \in BOOLEAN
  /\ templateCall = NoTemplateCall
  /\ splitCall = NoSplitCall

ApiCallers == {t \in Tasks : t <= 1}

\* One caller with the whole ZeusConnection API, and the DataSource setter.
NextConnection ==
  \/ \E t \in ApiCallers, kind \in {"connect", "begin"} : DataSource_call(t, kind)
  \/ \E t \in ApiCallers : Provider_start_callback(t)
  \/ \E t \in ApiCallers : Provider_start_error(t)
  \/ \E t \in ApiCallers : Provider_start_timeout(t)
  \/ \E t \in ApiCallers : DataSource_afterClose(t)
  \/ \E t \in ApiCallers : DataSource_begin_afterConnect(t)
  \/ \E t \in ApiCallers : DataSource_begin_afterOp(t)
  \/ \E value \in BOOLEAN : DataSource_setThrowErrors(value)
  \/ \E c \in ApiCallers : User_query(c)
  \/ \E c \in ApiCallers : User_execute(c)
  \/ \E c \in ApiCallers : User_batchExecute(c)
  \/ \E c \in ApiCallers : User_begin(c)
  \/ \E c \in ApiCallers : User_commit(c)
  \/ \E c \in ApiCallers : User_rollback(c)
  \/ \E c \in ApiCallers : User_close(c)
  \/ \E c \in ApiCallers : User_next(c)
  \/ \E c \in ApiCallers : User_resetCursor(c)
  \/ \E c \in ApiCallers : User_setThrowErrors(c)
  \/ \E c \in ApiCallers : Connection_query_resume(c)
  \/ \E c \in ApiCallers : Connection_execute_resume(c)
  \/ \E c \in ApiCallers : Provider_batchExecute_statement(c)
  \/ \E c \in ApiCallers : Connection_batchExecute_resume(c)
  \/ \E c \in ApiCallers : Connection_begin_resume(c)
  \/ \E c \in ApiCallers : Connection_commit_resume(c)
  \/ \E c \in ApiCallers : Connection_rollback_resume(c)
  \/ \E c \in ApiCallers : Provider_end_resume(c)

SpecConnection == Init /\ [][NextConnection]_vars

\* One caller that connects, calls batchExecute and closes, under every
\* setting of batchExecuteAlwaysSplit and multipleStatements.
NextBatch ==
  \/ \E t \in ApiCallers : DataSource_call(t, "connect")
  \/ \E t \in ApiCallers : Provider_start_callback(t)
  \/ \E t \in ApiCallers : Provider_start_error(t)
  \/ \E t \in ApiCallers : Provider_start_timeout(t)
  \/ \E c \in ApiCallers : User_batchExecute(c)
  \/ \E c \in ApiCallers : User_close(c)
  \/ \E c \in ApiCallers : Provider_batchExecute_statement(c)
  \/ \E c \in ApiCallers : Connection_batchExecute_resume(c)
  \/ \E c \in ApiCallers : Provider_end_resume(c)

SpecBatch == InitConnection /\ [][NextBatch]_vars

\* Two callers are enough for every meeting of DataSource methods.
DataSourceCallers == {t \in Tasks : t <= 2}

\* Several callers: the DataSource methods, close and the setters.
Next ==
  \/ \E t \in DataSourceCallers, kind \in TaskKinds : DataSource_call(t, kind)
  \/ \E t \in DataSourceCallers : Provider_start_callback(t)
  \/ \E t \in DataSourceCallers : Provider_start_error(t)
  \/ \E t \in DataSourceCallers : Provider_start_timeout(t)
  \/ \E t \in DataSourceCallers : DataSource_singleShot_afterConnect(t)
  \/ \E t \in DataSourceCallers : DataSource_singleShot_afterOp(t)
  \/ \E t \in DataSourceCallers : DataSource_afterClose(t)
  \/ \E t \in DataSourceCallers : DataSource_begin_afterConnect(t)
  \/ \E t \in DataSourceCallers : DataSource_begin_afterOp(t)
  \/ \E value \in BOOLEAN : DataSource_setThrowErrors(value)
  \/ \E c \in DataSourceCallers : User_close(c)
  \/ \E c \in DataSourceCallers : User_setThrowErrors(c)
  \/ \E c \in DataSourceCallers : Connection_query_resume(c)
  \/ \E c \in DataSourceCallers : Connection_execute_resume(c)
  \/ \E c \in DataSourceCallers : Provider_batchExecute_statement(c)
  \/ \E c \in DataSourceCallers : Connection_batchExecute_resume(c)
  \/ \E c \in DataSourceCallers : Connection_begin_resume(c)
  \/ \E c \in DataSourceCallers : Provider_end_resume(c)

Spec == Init /\ [][Next]_vars

\* The provider's bookkeeping: callers that connect, close and call
\* provider.end, and one call of disconnectAll.
NextProvider ==
  \/ \E t \in Tasks : DataSource_call(t, "connect")
  \/ \E t \in Tasks : Provider_start_callback(t)
  \/ \E t \in Tasks : Provider_start_error(t)
  \/ \E t \in Tasks : Provider_start_timeout(t)
  \/ \E c \in Tasks : User_close(c)
  \/ \E c \in Tasks : User_providerEnd(c)
  \/ \E c \in Tasks : Provider_end_resume(c)
  \/ \E c \in Tasks : Provider_end_direct_resume(c)
  \/ Provider_disconnectAll
  \/ Provider_disconnectAll_next
  \/ Provider_disconnectAll_endResume
  \/ Provider_disconnectAll_poolEndResume

SpecProvider == Init /\ [][NextProvider]_vars

\* Every identifier a DataSource can be registered under.
DataSourceIds ==
  { formatDatasourceId(id, schema, ToString(n)) :
      id \in ConfigIds, schema \in Schemas, n \in 1..MaxDataSources }

\* Identifiers a caller passes to ZeusDB.disconnectAll ("": none).
Identifiers == {"", "a", "a.s"}

\* The registry: registrations and one call of ZeusDB.disconnectAll.
NextRegistry ==
  \/ \E config \in Configs, schema \in Schemas : ZeusDB_registerDataSource(config, schema)
  \/ \E identifier \in Identifiers : ZeusDB_disconnectAll(identifier)
  \/ \E d \in DataSourceIds : DataSource_disconnectAll_settles(d)

SpecRegistry == Init /\ [][NextRegistry]_vars

\* Every configuration file.
InitLookup ==
  /\ Started
  /\ dsThrowErrors /\ usePool
  /\ configFile \in ConfigFiles
  /\ batchExecuteAlwaysSplit = TRUE
  /\ multipleStatements = FALSE
  /\ templateCall = NoTemplateCall
  /\ splitCall = NoSplitCall

\* Identifiers and schemas a caller passes to ZeusDB.getDataSource.
LookupSchemas == {"", "s"}

\* The registry: registrations, lookups and calls of init.
NextLookup ==
  \/ \E config \in Configs, schema \in Schemas : ZeusDB_registerDataSource(config, schema)
  \/ \E identifier \in ConfigIds, schema \in LookupSchemas : ZeusDB_getDataSource(identifier, schema)
  \/ ZeusDB_init

SpecLookup == InitLookup /\ [][NextLookup]_vars

\* The longest template: its number of fragments, and of values.
MaxFragments == 3
TemplateStrings == UNION { [1..k -> {"", "a", "b"}] : k \in 0..MaxFragments }
TemplateValues == UNION { [1..k -> {1, 2}] : k \in 0..MaxFragments }

\* Every fragments sequence and every values sequence, up to the bound.
InitFormatter ==
  /\ Started
  /\ dsThrowErrors /\ usePool
  /\ configFile = NoConfigFile
  /\ batchExecuteAlwaysSplit = TRUE
  /\ multipleStatements = FALSE
  /\ \E strings \in TemplateStrings, values \in TemplateValues :
       templateCall = [NoTemplateCall EXCEPT !.strings = strings, !.values = values]
  /\ splitCall = NoSplitCall

utilFrame ==
  UNCHANGED <<dsThrowErrors, usePool, batchFlags, batch, provVars, connVars, tasks,
              disconnectVars, registryVars>>

\* The call ZeusUtil.formatTemplateQuery(strings, ...values).
Util_formatTemplateQuery ==
  /\ ~templateCall.called
  /\ LET r == formatTemplateQuery(templateCall.strings, templateCall.values)
     IN  templateCall' = [templateCall EXCEPT !.called = TRUE, !.sql = r.sql, !.params = r.params]
  /\ UNCHANGED splitCall
  /\ utilFrame

NextFormatter == Util_formatTemplateQuery

SpecFormatter == InitFormatter /\ [][NextFormatter]_vars

\* The texts handed to splitSqlStatements are made of pieces: quotes,
\* backslashes, semicolons and a letter, up to MaxQuotePieces of them; or
\* keywords (in either case), statements and a letter, up to MaxBlockPieces of
\* them.
QuotePieces == {"'", "\"", "\\", ";", "a"}
BlockPieces == {"BEGIN ", "end;", "a;", "x"}
MaxQuotePieces == 5
MaxBlockPieces == 6

RECURSIVE concat(_)
concat(pieces) == IF pieces = <<>> THEN "" ELSE pieces[1] \o concat(Tail(pieces))

SqlTexts ==
  { concat(p) : p \in UNION { [1..k -> QuotePieces] : k \in 0..MaxQuotePieces } } \cup
  { concat(p) : p \in UNION { [1..k -> BlockPieces] : k \in 0..MaxBlockPieces } }

InitSplitter ==
  /\ Started
  /\ dsThrowErrors /\ usePool
  /\ configFile = NoConfigFile
  /\ batchExecuteAlwaysSplit = TRUE
  /\ multipleStatements = FALSE
  /\ templateCall = NoTemplateCall
  /\ \E sql \in SqlTexts : splitCall = [NoSplitCall EXCEPT !.sql = sql]

\* The call ZeusUtil.splitSqlStatements(sqlCommands).
Util_splitSqlStatements ==
  /\ ~splitCall.called
  /\ splitCall' = [splitCall EXCEPT !.called = TRUE, !.run = splitterRun(splitCall.sql)]
  /\ UNCHANGED templateCall
  /\ utilFrame

NextSplitter == Util_splitSqlStatements

SpecSplitter == InitSplitter /\ [][NextSplitter]_vars

\* Texts with dollar-quoted blocks: the tags $$ and $a$, ';', a letter, a
\* quote and a backslash.
DollarPieces == {"$$", "$a$", ";", "a", "'", "\\"}
MaxDollarPieces == 5
DollarTexts == { concat(p) : p \in UNION { [1..k -> DollarPieces] : k \in 0..MaxDollarPieces } }

InitDollar ==
  /\ Started
  /\ dsThrowErrors /\ usePool
  /\ configFile = NoConfigFile
  /\ batchExecuteAlwaysSplit = TRUE
  /\ multipleStatements = FALSE
  /\ templateCall = NoTemplateCall
  /\ \E sql \in DollarTexts : splitCall = [NoSplitCall EXCEPT !.sql = sql]

SpecDollar == InitDollar /\ [][NextSplitter]_vars

\* Texts with comment lines: "--", line feed, blank, ';', a letter and a quote;
\* and a two-statement text with a comment after the first statement.
CommentPieces == {"--", "\n", " ", ";", "a", "'"}
MaxCommentPieces == 5
CommentExample == "x(1); -- c\nx(2);"
CommentTexts ==
  { concat(p) : p \in UNION { [1..k -> CommentPieces] : k \in 0..MaxCommentPieces } } \cup
  { CommentExample }

InitComments ==
  /\ Started
  /\ dsThrowErrors /\ usePool
  /\ configFile = NoConfigFile
  /\ batchExecuteAlwaysSplit = TRUE
  /\ multipleStatements = FALSE
  /\ templateCall = NoTemplateCall
  /\ \E sql \in CommentTexts : splitCall = [NoSplitCall EXCEPT !.sql = sql]

SpecComments == InitComments /\ [][NextSplitter]_vars

(***************************************************************************)
(* Properties                                                              *)
(***************************************************************************)

\* A step in which the named method of connection c is called.
BeginCalled(c) == User_begin(c) \/ DataSource_begin_afterConnect(c)
CommitCalled(c) == User_commit(c)
RollbackCalled(c) == User_rollback(c)
CloseCalled(c) ==
  \/ User_close(c)
  \/ DataSource_begin_afterOp(c) /\ lastRet[c] = "error"
  \/ DataSource_singleShot_afterOp(c) /\ lastRet[c] # "thrown"
MethodCalled(c) ==
  \/ User_query(c) \/ User_execute(c) \/ User_batchExecute(c)
  \/ BeginCalled(c) \/ CommitCalled(c) \/ RollbackCalled(c)
  \/ DataSource_singleShot_afterConnect(c)
\* A step in which query, queryRow, queryScalar, execute, batchExecute, begin,
\* commit or rollback of c is called or resumed.
MethodStep(c) ==
  \/ MethodCalled(c)
  \/ Connection_query_resume(c) \/ Connection_execute_resume(c)
  \/ Connection_batchExecute_resume(c) \/ Connection_begin_resume(c)
  \/ Connection_commit_resume(c) \/ Connection_rollback_resume(c)
\* A step in which a close() call of c comes back to its caller.
CloseReturned(c) ==
  \/ CloseCalled(c) /\ pending'[c] = "none"
  \/ Provider_end_resume(c)

Failed(how) == how \in {"error", "thrown"}

\* C1: on an open connection begin() issues the provider's begin only while
\* the in-transaction flag is false, and the flag becomes true only when that
\* begin succeeds; begin() while the flag is true fails with 'already in a
\* transaction', calls no provider and leaves the flag true.
C1_BeginOnlyOutsideTransaction ==
  [][\A c \in Tasks :
       /\ (BeginCalled(c) /\ conns[c].opened /\ conns[c].inTransaction) =>
              /\ Failed(lastRet'[c])
              /\ conns'[c].errorLast = "alreadyInTx"
              /\ pending'[c] = "none"
              /\ UNCHANGED provVars
              /\ conns'[c].inTransaction
       /\ (BeginCalled(c) /\ conns[c].opened /\ ~conns[c].inTransaction) =>
              /\ pending'[c] = "begin"
              /\ ~conns'[c].inTransaction
       /\ (pending[c] # "begin" /\ pending'[c] = "begin") =>
              conns[c].opened /\ ~conns[c].inTransaction
       /\ (~conns[c].inTransaction /\ conns'[c].inTransaction) =>
              pending[c] = "begin" /\ lastRet'[c] = "ok" /\ conns'[c].opened
     ]_vars

C1_Witness ==
  \E c \in Tasks : /\ conns[c].opened /\ conns[c].inTransaction
                    /\ conns[c].errorLast = "alreadyInTx" /\ Failed(lastRet[c])

\* C2: on an open connection commit() and rollback() issue the provider call
\* only while the in-transaction flag is true, and an open connection's flag
\* becomes false only when one of them succeeds; called while the flag is
\* false each fails with 'not in a transaction', calls no provider and leaves
\* the flag false.
C2_CommitRollbackOnlyInTransaction ==
  [][\A c \in Tasks :
       /\ ((CommitCalled(c) \/ RollbackCalled(c)) /\ conns[c].opened /\ ~conns[c].inTransaction) =>
              /\ Failed(lastRet'[c])
              /\ conns'[c].errorLast = "notInTx"
              /\ pending'[c] = "none"
              /\ UNCHANGED provVars
              /\ ~conns'[c].inTransaction
       /\ (CommitCalled(c) /\ conns[c].opened /\ conns[c].inTransaction) =>
              pending'[c] = "commit" /\ conns'[c].inTransaction
       /\ (RollbackCalled(c) /\ conns[c].opened /\ conns[c].inTransaction) =>
              pending'[c] = "rollback" /\ conns'[c].inTransaction
       /\ (pending[c] = "none" /\ pending'[c] \in {"commit", "rollback"}) =>
              conns[c].opened /\ conns[c].inTransaction
       /\ (conns[c].inTransaction /\ ~conns'[c].inTransaction /\ conns'[c].opened) =>
              pending[c] \in {"commit", "rollback"} /\ lastRet'[c] = "ok"
     ]_vars

C2_Witness ==
  \E c \in Tasks : /\ conns[c].opened /\ ~conns[c].inTransaction
                    /\ conns[c].errorLast = "notInTx" /\ Failed(lastRet[c])

\* C3: on a closed connection every call of query, queryRow, queryScalar,
\* execute, batchExecute, begin, commit or rollback fails with 'connection not
\* open' and calls no provider, and a closed connection never becomes open.
C3_ClosedStaysClosed ==
  [][\A c \in Tasks :
       /\ (MethodCalled(c) /\ conns[c].created /\ ~conns[c].opened) =>
              /\ Failed(lastRet'[c])
              /\ conns'[c].errorLast = "notOpen"
              /\ pending'[c] = "none"
              /\ UNCHANGED provVars
       /\ (conns[c].created /\ ~conns[c].opened) => ~conns'[c].opened
     ]_vars

C3_Witness ==
  \E c \in Tasks : /\ conns[c].created /\ ~conns[c].opened
                    /\ conns[c].errorLast = "notOpen" /\ Failed(lastRet[c])

\* C4 as stated: every close() (disconnect, end, release) that comes back
\* leaves the connection closed.
C4_CloseAlwaysCloses ==
  [][\A c \in Tasks : CloseReturned(c) => ~conns'[c].opened]_vars

\* C4, what the code does: close() on a closed connection returns success and changes
\* nothing (no provider call); a close() that returns success leaves the
\* connection closed, out of the open-set, its physical connection given up;
\* close() fails only when the driver rejects the physical end of a dedicated
\* (non-pooled) connection, and then the connection stays open in the open-set.
C4_CloseIdempotent ==
  [][\A c \in Tasks :
       /\ (CloseCalled(c) /\ conns[c].created /\ ~conns[c].opened) =>
              /\ lastRet'[c] = "ok"
              /\ pending'[c] = "none"
              /\ conns'[c] = conns[c]
              /\ UNCHANGED provVars
       /\ (CloseReturned(c) /\ lastRet'[c] = "ok") =>
              /\ ~conns'[c].opened
              /\ c \notin openConnections'
              /\ conns[c].connection \notin physBusy'
       /\ (CloseReturned(c) /\ lastRet'[c] # "ok") =>
              /\ ~usePool
              /\ pending[c] = "close"
              /\ conns'[c].opened
              /\ c \in openConnections'
              /\ conns'[c].errorLast = "close"
     ]_vars

\* close() was called on a closed connection (after a call had failed on it)
\* and returned success.
C4_Witness ==
  \E c \in Tasks : /\ conns[c].created /\ ~conns[c].opened
                    /\ conns[c].errorLast = "notOpen" /\ lastRet[c] = "ok"

\* C8: a method that fails while the connection's throwErrors is false returns
\* the error (it does not throw); a method that returns an error has recorded
\* it as last error and left the result buffer, row count, cursor,
\* affected-row count, insert id and in-transaction flag as they were.
C8_ReturnedErrorChangesNothingElse ==
  [][\A c \in Tasks :
       /\ (MethodStep(c) /\ ~conns[c].throwErrors) => lastRet'[c] # "thrown"
       /\ (MethodStep(c) /\ lastRet'[c] = "error") =>
              /\ conns'[c].errorLast # "none"
              /\ conns'[c].result = conns[c].result
              /\ conns'[c].resultCount = conns[c].resultCount
              /\ conns'[c].resultCursor = conns[c].resultCursor
              /\ conns'[c].affectedRows = conns[c].affectedRows
              /\ conns'[c].insertId = conns[c].insertId
              /\ conns'[c].inTransaction = conns[c].inTransaction
     ]_vars

\* A driver error was returned on a connection in a transaction that holds
\* rows, a moved cursor and an insert id.
C8_Witness ==
  \E c \in Tasks : /\ lastRet[c] = "error" /\ conns[c].errorLast = "driver"
                    /\ conns[c].inTransaction /\ conns[c].insertId = 1
                    /\ Len(conns[c].result) > 0 /\ conns[c].resultCursor > 0

\* C9: a failing method throws exactly when the connection's throwErrors is
\* true at the step that dispatches the failure, whatever it was when the
\* method was called.
C9_ModeReadAtDispatch ==
  [][\A c \in Tasks :
       (MethodStep(c) /\ Failed(lastRet'[c])) =>
          lastRet'[c] = (IF conns[c].throwErrors THEN "thrown" ELSE "error")
     ]_vars

\* A driver error came back as a value from a method called while the flag
\* was true, and one was thrown from a method called while it was false.
C9_Witness ==
  \E c \in Tasks : /\ conns[c].errorLast = "driver"
                    /\ \/ lastRet[c] = "error" /\ entryThrowErrors[c]
                       \/ lastRet[c] = "thrown" /\ ~entryThrowErrors[c]

\* C5 as stated: when a single-shot DataSource method has left (returned or
\* thrown) after calling its connection's method, that connection is closed
\* and out of the provider's open-set.
C5_SingleShotClosesConnection ==
  \A t \in Tasks :
    (tasks[t].kind \in SingleShot /\ tasks[t].pc = "done" /\ lastRet[t] # "none") =>
       (~conns[t].opened /\ t \notin openConnections)

\* C6 as stated: when DataSource.begin() has left with a failure of the begin
\* step (returned or thrown), the connection it opened is closed and out of
\* the open-set.
C6_FailedBeginClosesConnection ==
  \A t \in Tasks :
    (tasks[t].kind = "begin" /\ tasks[t].pc = "done" /\ tasks[t].ret \in {"error", "thrown"}
       /\ lastRet[t] # "none") =>
       (~conns[t].opened /\ t \notin openConnections)

\* C7 as stated: while the DataSource's throwErrors (and that of the
\* connection the method opened) is false, no step makes a single-shot
\* DataSource method throw.
C7_SingleShotNeverThrowsInReturnMode ==
  [][\A t \in Tasks :
       ( /\ tasks[t].kind \in SingleShot
         /\ tasks[t].pc # "done"
         /\ tasks[t].ret # "thrown" /\ lastRet[t] # "thrown"
         /\ ~dsThrowErrors
         /\ conns[t].created => ~conns[t].throwErrors ) =>
       (tasks'[t].ret # "thrown" /\ lastRet'[t] # "thrown")
     ]_vars

\* C10: the DataSource setter stores the value and sets it on every connection
\* of the open-set in the same step; a connection is created with the
\* DataSource's value and joins the open-set; a connection's own setter
\* changes neither the DataSource's value nor any other connection.
C10_SetterCascades ==
  [][/\ \A value \in BOOLEAN :
          DataSource_setThrowErrors(value) =>
             /\ dsThrowErrors' = value
             /\ \A c \in openConnections : conns'[c].throwErrors = value
     /\ \A c \in Tasks :
          (~conns[c].created /\ conns'[c].created) =>
             (conns'[c].throwErrors = dsThrowErrors /\ c \in openConnections')
     /\ \A c \in Tasks :
          User_setThrowErrors(c) =>
             /\ dsThrowErrors' = dsThrowErrors
             /\ \A d \in Tasks \ {c} : conns'[d] = conns[d]
    ]_vars

\* Two connections are in the open-set, one with the DataSource's value and
\* one overridden.
C10_Witness ==
  \E c, d \in openConnections :
     /\ conns[c].throwErrors = dsThrowErrors
     /\ conns[d].throwErrors # dsThrowErrors

\* C11 as stated: the cursor of every connection lies in [0, rowCount].
C11_CursorWithinRowCount ==
  \A c \in Tasks : conns[c].resultCursor >= 0 /\ conns[c].resultCursor <= conns[c].resultCount

\* C12: every connection of the open-set is opened and every opened
\* connection is in the open-set; a connection leaves the open-set in the
\* step that closes it, and never enters it again.
C12_OpenSetIsTheOpenConnections ==
  [][/\ \A c \in openConnections' : conns'[c].created /\ conns'[c].opened
     /\ \A c \in Tasks : (conns'[c].created /\ conns'[c].opened) => c \in openConnections'
     /\ \A c \in Tasks : (c \in openConnections /\ c \notin openConnections') =>
                             (conns[c].opened /\ ~conns'[c].opened)
     /\ \A c \in Tasks : (conns[c].created /\ c \notin openConnections) =>
                             c \notin openConnections'
    ]_vars

\* One connection has been closed and removed while another one is open.
C12_Witness ==
  \E c, d \in Tasks :
     /\ conns[c].created /\ ~conns[c].opened /\ c \notin openConnections
     /\ d \in openConnections /\ conns[d].opened

\* C13 as stated: provider.end(conn) on a connection that is no longer in the
\* open-set asks nothing of the driver and changes no provider or connection
\* state.
C13_EndOnRemovedIsNoOp ==
  [][\A c \in Tasks :
       (User_providerEnd(c) /\ conns[c].created /\ c \notin openConnections) =>
          (pending'[c] = "none" /\ UNCHANGED <<provVars, conns>>)
    ]_vars

\* C14 as stated: no two opened connections wrap the same physical connection.
C14_PhysicalConnectionExclusive ==
  \A c, d \in Tasks :
     (c # d /\ conns[c].opened /\ conns[d].opened) => conns[c].connection # conns[d].connection

\* C15: with pooling, the physical connections in use are pool connections
\* and never more than the pool's maximum; the step in which a pooled
\* connection is closed (close, end or disconnectAll) leaves its physical
\* connection free; and start() only hands out a free physical connection.
C15_CloseReturnsSlot ==
  [][usePool =>
       /\ physBusy' \subseteq PoolHandles
       /\ Cardinality(physBusy') <= ConnectionLimit
       /\ \A c \in Tasks : (conns[c].opened /\ ~conns'[c].opened) =>
                               conns[c].connection \notin physBusy'
       /\ \A t \in Tasks : Provider_start_callback(t) =>
                               (conns'[t].connection \notin physBusy /\ conns'[t].connection \in physBusy')
    ]_vars

\* A closed connection's physical connection is held again by a connection
\* opened later.
C15_Witness ==
  /\ usePool
  /\ \E c, d \in Tasks :
        /\ conns[c].created /\ ~conns[c].opened /\ lastRet[c] = "ok"
        /\ conns[d].opened /\ conns[d].connection = conns[c].connection
        /\ conns[d].connection \in physBusy

\* C16: with pooling, start() creates the pool if there is none and arms the
\* timeout; as long as the caller waits the timeout stays armed; when it
\* fires the waiting caller gets the failure; and the caller stops waiting
\* only with an open connection of the open-set or with a failure.
C16_StartSettlesByTimeout ==
  [][usePool =>
       \A t \in Tasks :
         /\ (tasks[t].pc = "idle" /\ tasks'[t].pc = "start") => (pool' /\ t \in timers')
         /\ tasks'[t].pc = "start" => t \in timers'
         /\ (Provider_start_timeout(t) /\ tasks[t].pc = "start") =>
                (tasks'[t].pc = "done" /\ tasks'[t].ret = "thrown")
         /\ (tasks[t].pc = "start" /\ tasks'[t].pc # "start") =>
                \/ tasks'[t].ret = "thrown"
                \/ conns'[t].opened /\ t \in openConnections'
    ]_vars

\* The timeout fired on a caller whose request is still queued in the pool.
C16_Witness ==
  /\ usePool
  /\ \E t \in Tasks : /\ tasks[t].pc = "done" /\ tasks[t].ret = "thrown"
                      /\ t \in acquiring /\ t \notin timers

C18_AllAttemptedAllReported ==
  registryCall.pc # "idle" =>
     /\ \A d \in registryCall.targets : dsDisconnect[d] # "idle"
     /\ (registryCall.pc = "thrown" /\ \A d \in registryCall.targets : dsDisconnect[d] # "running") =>
            registryCall.reported = {d \in registryCall.targets : dsDisconnect[d] = "rejected"}

\* C18, what the code does: disconnectAll() without an identifier calls
\* disconnectAll() of every registered DataSource before it awaits anything,
\* one DataSource's outcome leaves the others' calls alone, and the failure
\* thrown to the caller is a single DataSource's.
C18_AllAttempted ==
  [][/\ ZeusDB_disconnectAll("") =>
          \A d \in DOMAIN dataSources : dsDisconnect'[d] = "running"
     /\ \A d \in DOMAIN dsDisconnect :
          DataSource_disconnectAll_settles(d) =>
             /\ \A e \in DOMAIN dsDisconnect \ {d} : dsDisconnect'[e] = dsDisconnect[e]
             /\ registryCall'.pc = "thrown" => Cardinality(registryCall'.reported) = 1
    ]_vars

\* disconnectAll() has thrown one DataSource's failure and another
\* DataSource's disconnect has gone through.
C18_Witness ==
  /\ registryCall.pc = "thrown"
  /\ \E d, e \in registryCall.targets :
        /\ d \in registryCall.reported
        /\ dsDisconnect[e] = "resolved"

\* C19 as stated: once ZeusDB.disconnectAll() has returned or thrown, no
\* DataSource's disconnectAll() it started is still running.
C19_ReturnsAfterEveryDisconnect ==
  registryCall.pc \in {"returned", "thrown"} =>
     \A d \in registryCall.targets : dsDisconnect[d] # "running"

\* C20 as stated: registerDataSource with an identifier that is taken returns
\* the stored DataSource and leaves the registry and its DataSources as they
\* are, whatever the configuration.
C20_RegisterIdempotent ==
  [][\A config \in Configs, schema \in Schemas :
       ( /\ ZeusDB_registerDataSource(config, schema)
         /\ formatDatasourceId(config.id, schema, ToString(constructed + 1)) \in DOMAIN dataSources ) =>
       ( /\ registerRet' = [how |-> "returned",
                         instance |-> dataSources[formatDatasourceId(config.id, schema, ToString(constructed + 1))].instance]
         /\ UNCHANGED dataSources )
    ]_vars

\* C20, what the code does: the same for a configuration from which a
\* ZeusDataSource can be constructed; and a registration never changes a
\* DataSource that is stored.
C20_RegisterReturnsExisting ==
  [][\A config \in Configs, schema \in Schemas :
       /\ ( /\ ZeusDB_registerDataSource(config, schema)
            /\ config.mysql
            /\ formatDatasourceId(config.id, schema, ToString(constructed + 1)) \in DOMAIN dataSources ) =>
          ( /\ registerRet' = [how |-> "returned",
                         instance |-> dataSources[formatDatasourceId(config.id, schema, ToString(constructed + 1))].instance]
            /\ UNCHANGED dataSources )
       /\ ZeusDB_registerDataSource(config, schema) =>
            \A id \in DOMAIN dataSources : id \in DOMAIN dataSources' /\ dataSources'[id] = dataSources[id]
    ]_vars

\* The last registerDataSource call constructed a DataSource with another
\* setting and returned one stored earlier.
C20_Witness ==
  \E id \in DOMAIN dataSources :
     /\ registerRet = [how |-> "returned", instance |-> dataSources[id].instance]
     /\ constructed > dataSources[id].instance
     /\ \E jd \in DOMAIN dataSources : jd # id

\* The lookups of getDataSource(identifier, schema) find a DataSource in reg.
Found(identifier, schema, reg) ==
  \/ /\ identifier.type = "string"
     /\ identifier.value \in DOMAIN reg
     /\ schema # ""
     /\ reg[identifier.value].schema = schema
  \/ formatDatasourceIdForLookup(identifier, schema) \in DOMAIN reg

\* C21: a getDataSource call that finds the DataSource under the identifier
\* itself or under the normalized key returns it without running init(); on a
\* miss it runs init() once, never more, and looks again; if init() came back
\* and the DataSource is still not found, the call fails with 'Data source
\* not found'.
C21_GetRunsInitAtMostOnce ==
  [][\A identifier \in ConfigIds, schema \in LookupSchemas :
       ZeusDB_getDataSource(identifier, schema) =>
         /\ getRet'.inits <= 1
         /\ Found(identifier, schema, dataSources) =>
              /\ getRet'.inits = 0
              /\ getRet'.how = "returned"
              /\ getRet'.id \in
                   {String(identifier), formatDatasourceIdForLookup(identifier, schema)}
              /\ UNCHANGED dataSources
         /\ ~Found(identifier, schema, dataSources) =>
              /\ getRet'.inits = 1
              /\ dataSources' = init(configFile, dataSources, constructed).reg
              /\ init(configFile, dataSources, constructed).how = "returned" =>
                   getRet'.how = IF Found(identifier, schema, dataSources')
                                 THEN "returned" ELSE "notFound"
    ]_vars

\* A getDataSource call missed, ran init(), which registered DataSources, and
\* missed again.
C21_Witness ==
  /\ getRet.how = "notFound"
  /\ getRet.inits = 1
  /\ configFile.found
  /\ dataSources # <<>>

\* C22: getDataSource(id, schema), for an id and a schema a DataSource is
\* registered with, returns the DataSource whose identifier is
\* formatDatasourceId(id, schema).
C22_GetReturnsConfiguredDataSource ==
  [][\A id \in ConfigIds \ {Str("")}, schema \in LookupSchemas :
       ( /\ ZeusDB_getDataSource(id, schema)
         /\ formatDatasourceId(id, schema, "") \in DOMAIN dataSources ) =>
       ( /\ getRet'.how = "returned"
         /\ getRet'.id = formatDatasourceId(id, schema, "") )
    ]_vars

\* C23: a registration from a configuration that omits the id stores a new
\* DataSource under a generated identifier that starts with '!', so that two
\* such registrations give two DataSources.
C23_OmittedIdIsGenerated ==
  [][\A config \in Configs, schema \in Schemas :
       ( /\ ZeusDB_registerDataSource(config, schema)
         /\ config.id = Undefined
         /\ config.mysql ) =>
       \E id \in DOMAIN dataSources' \ DOMAIN dataSources :
          /\ SubSeq(id, 1, 1) = "!"
          /\ registerRet' = [how |-> "returned", instance |-> dataSources'[id].instance]
    ]_vars

\* The identifiers init() registers from the entry ds of the file.
EntryIds(ds) ==
  IF Len(ds.schemas) > 0
  THEN { formatDatasourceId(ds.id, ds.schemas[k], "") : k \in 1..Len(ds.schemas) }
  ELSE { formatDatasourceId(ds.id, "", "") }

FileIdentifiers(file) == UNION { EntryIds(file.datasources[j]) : j \in 1..Len(file.datasources) }

\* C24: when init() returns, every entry of the file is registered once under
\* its id with each schema it declares, or once under its id alone if it
\* declares none, and nothing else has been added; and init() fails with
\* 'does not have a schema defined' if a DataSource it registers, or finds
\* registered, for an entry has no schema.
C24_InitRegistersPerSchema ==
  [][ZeusDB_init =>
       /\ initRet'.how = "returned" =>
            /\ configFile.found
            /\ DOMAIN dataSources' = DOMAIN dataSources \cup FileIdentifiers(configFile)
            /\ \A id \in FileIdentifiers(configFile) : dataSources'[id].schema # ""
       /\ ( /\ configFile.found
            /\ \E id \in FileIdentifiers(configFile) \cap DOMAIN dataSources' :
                  dataSources'[id].schema = "" ) =>
            initRet'.how = "noSchema"
       /\ \A id \in DOMAIN dataSources :
            id \in DOMAIN dataSources' /\ dataSources'[id] = dataSources[id]
    ]_vars

\* init() returned after registering an entry under two schemas and another
\* entry without one.
C24_Witness ==
  /\ initRet.how = "returned"
  /\ \E j, k \in 1..Len(configFile.datasources) :
       /\ Len(configFile.datasources[j].schemas) = 2
       /\ Len(configFile.datasources[k].schemas) = 0
       /\ (EntryIds(configFile.datasources[j]) \cup EntryIds(configFile.datasources[k]))
            \cap initRet.before = {}
       /\ Cardinality(DOMAIN dataSources \ initRet.before) = 3

\* C25: when it splits, batchExecute executes the statements of the splitter
\* one after the other, in order, whether or not the one before failed, and
\* returns an array with one entry per statement, in the statements' order.
C25_SplitModeOneEntryPerStatement ==
  [][\A c \in Tasks :
       /\ (Provider_batchExecute_statement(c) /\ batch[c].mode = "split") =>
            /\ batch'[c].queries = splitSqlStatements(batch[c].sql)
            /\ Len(batch'[c].results) = Len(batch[c].results) + 1
            /\ SubSeq(batch'[c].results, 1, Len(batch[c].results)) = batch[c].results
            /\ batch'[c].results[Len(batch'[c].results)].query =
                 splitSqlStatements(batch[c].sql)[Len(batch'[c].results)]
       /\ (Connection_batchExecute_resume(c) /\ batch[c].mode = "split") =>
            /\ lastRet'[c] = "ok"
            /\ Len(batch[c].results) = Len(splitSqlStatements(batch[c].sql))
            /\ \A k \in 1..Len(batch[c].results) :
                 batch[c].results[k].query = splitSqlStatements(batch[c].sql)[k]
    ]_vars

\* A split batch of two statements whose first statement failed and whose
\* second was executed all the same.
C25_Witness ==
  \E c \in Tasks :
     /\ batch[c].mode = "split"
     /\ Len(batch[c].queries) = 2
     /\ Len(batch[c].results) = 2
     /\ batch[c].results[1].outcome = "error"
     /\ batch[c].results[2].outcome = "result"

\* C26: batchExecute sends the whole text as one call, and returns an array of
\* one element, exactly when the DataSource does not always split and the
\* mysql configuration has multipleStatements; otherwise it executes the
\* splitter's statements.
C26_WholeTextIffAllowed ==
  [][\A c \in Tasks :
       /\ (User_batchExecute(c) /\ pending'[c] = "batchExecute") =>
            IF ~batchExecuteAlwaysSplit /\ multipleStatements
            THEN batch'[c].mode = "whole" /\ batch'[c].queries = <<batch'[c].sql>>
            ELSE /\ batch'[c].mode = "split"
                 /\ batch'[c].queries = splitSqlStatements(batch'[c].sql)
       /\ (Connection_batchExecute_resume(c) /\ batch[c].mode = "whole") =>
            /\ ~batchExecuteAlwaysSplit /\ multipleStatements
            /\ Len(batch[c].results) = 1
            /\ batch[c].results[1].query = batch[c].sql
    ]_vars

\* A text of two statements was sent as one call and has its one answer.
C26_Witness ==
  \E c \in Tasks :
     /\ batch[c].mode = "whole"
     /\ Len(splitSqlStatements(batch[c].sql)) = 2
     /\ Len(batch[c].results) = 1

\* The number of characters ch in s.
RECURSIVE countChar(_, _)
countChar(s, ch) ==
  IF s = "" THEN 0
  ELSE (IF charAt(s, 1) = ch THEN 1 ELSE 0) + countChar(slice(s, 2), ch)

\* The fragments in order, with a '?' after each of the first k of them.
RECURSIVE interleaved(_, _)
interleaved(strings, k) ==
  IF strings = <<>> THEN ""
  ELSE strings[1] \o (IF k > 0 THEN "?" ELSE "") \o interleaved(Tail(strings), k - 1)

\* The answer of formatTemplateQuery is the fragments in order with one '?'
\* for each value between them, and the values in order: as many
\* placeholders, and as many params, as there are values.
FormatKeepsEveryValue(call) ==
  /\ call.sql = interleaved(call.strings, Len(call.values))
  /\ call.params = call.values
  /\ countChar(call.sql, "?") = Len(call.values)
  /\ Len(call.params) = Len(call.values)

\* C27 as stated: for every fragments sequence and every values sequence the
\* answer has the fragments with one '?' per value and the values as params.
C27_FormatKeepsEveryValue ==
  templateCall.called => FormatKeepsEveryValue(templateCall)

\* C27 as amended: the same, for sequences with no more values than fragments
\* (a tagged template has one fragment more than it has values).
C27_FormatKeepsValuesOfTemplate ==
  (templateCall.called /\ Len(templateCall.values) <= Len(templateCall.strings)) =>
    FormatKeepsEveryValue(templateCall)

\* A template of three fragments and two values has been formatted.
C27_Witness ==
  /\ templateCall.called
  /\ Len(templateCall.strings) = 3
  /\ Len(templateCall.values) = 2
  /\ templateCall.params = templateCall.values

\* The indexes of s from i on that lie inside a single-quoted or a
\* double-quoted string or right after a backslash, when a backslash escapes
\* the character after it, inside quotes too, and an escaped quote neither
\* opens nor closes a string.
RECURSIVE protectedFrom(_, _, _, _, _)
protectedFrom(s, i, inSingle, inDouble, escaped) ==
  IF i > Len(s) THEN {}
  ELSE (IF inSingle \/ inDouble \/ escaped THEN {i} ELSE {}) \cup
       ( IF escaped THEN protectedFrom(s, i + 1, inSingle, inDouble, FALSE)
         ELSE IF charAt(s, i) = "\\" THEN protectedFrom(s, i + 1, inSingle, inDouble, TRUE)
         ELSE IF charAt(s, i) = "'" /\ ~inDouble
         THEN protectedFrom(s, i + 1, ~inSingle, inDouble, FALSE)
         ELSE IF charAt(s, i) = "\"" /\ ~inSingle
         THEN protectedFrom(s, i + 1, inSingle, ~inDouble, FALSE)
         ELSE protectedFrom(s, i + 1, inSingle, inDouble, FALSE) )

Protected(s) == protectedFrom(s, 1, FALSE, FALSE, FALSE)

\* C28: the splitter splits only at a ';', and never at one inside a
\* single-quoted or double-quoted string or right after a backslash.
C28_NoSplitInQuotesOrAfterBackslash ==
  splitCall.called =>
    \A i \in splitCall.run.cuts :
       charAt(splitCall.sql, i) = ";" /\ i \notin Protected(splitCall.sql)

\* The splitter has split a text at a ';' and has passed over another ';'
\* inside quotes and one after a backslash.
C28_Witness ==
  /\ splitCall.called
  /\ splitCall.run.cuts # {}
  /\ \E i, j \in Protected(splitCall.sql) \ splitCall.run.cuts :
       /\ charAt(splitCall.sql, i) = ";" /\ charAt(splitCall.sql, i - 1) = "\\"
       /\ charAt(splitCall.sql, j) = ";" /\ charAt(splitCall.sql, j - 1) # "\\"

\* The keyword, in any case, stands at index i of s as a whole word.
wholeWordAt(s, i, keyword) ==
  /\ matchesKeyword(slice(s, i), keyword)
  /\ i > 1 => ~isWordChar(charAt(s, i - 1))

\* The block depth before index j of s: the BEGIN words before it, less the
\* END words that closed one of them.
RECURSIVE wordDepth(_, _, _, _)
wordDepth(s, i, j, depth) ==
  IF i > j \/ i > Len(s) THEN depth
  ELSE IF wholeWordAt(s, i, "BEGIN") THEN wordDepth(s, i + 1, j, depth + 1)
  ELSE IF wholeWordAt(s, i, "END") /\ depth > 0 THEN wordDepth(s, i + 1, j, depth - 1)
  ELSE wordDepth(s, i + 1, j, depth)

\* A text without quotes, backslashes and dollar signs.
Plain(s) == \A i \in 1..Len(s) : charAt(s, i) \notin {"'", "\"", "\\", "$"}

\* A text of the form BEGIN ... END; : a block that is open from its BEGIN to
\* its last END and closed by it.
OneBlock(s) ==
  /\ Len(s) > 4
  /\ wholeWordAt(s, 1, "BEGIN")
  /\ wholeWordAt(s, Len(s) - 3, "END")
  /\ charAt(s, Len(s)) = ";"
  /\ wordDepth(s, 1, Len(s), 0) = 0
  /\ \A j \in 1..(Len(s) - 4) : wordDepth(s, 1, j, 0) > 0

\* The splitter splits the plain text of the call at the ';' at block depth
\* zero and at no other, and emits a text BEGIN ... END; as one statement.
SplitsAtDepthZero ==
  /\ splitCall.run.cuts =
       { i \in 1..Len(splitCall.sql) :
           charAt(splitCall.sql, i) = ";" /\ wordDepth(splitCall.sql, 1, i, 0) = 0 }
  /\ OneBlock(splitCall.sql) =>
       splitCall.run.statements = <<SubSeq(splitCall.sql, 1, Len(splitCall.sql) - 1)>>

\* C29: the splitter counts the BEGIN and END words into a block depth that
\* never goes below zero and splits at a ';' only at depth zero, so that a
\* text BEGIN ... ; ... END; (nested pairs included) is one statement and the
\* ';' after the matching END splits again.
C29_SplitsOnlyOutsideBlocks ==
  (splitCall.called /\ Plain(splitCall.sql)) => SplitsAtDepthZero

\* BEGIN or END, followed by a word boundary, stands at no index of s behind
\* a word character.
NoLookAlike(s) ==
  \A i \in 2..Len(s) :
     (matchesKeyword(slice(s, i), "BEGIN") \/ matchesKeyword(slice(s, i), "END")) =>
       ~isWordChar(charAt(s, i - 1))

\* C29, what the code does: the same for the texts in which BEGIN and END
\* end no longer word.
C29_SplitsOnlyOutsideBlocksOfWords ==
  (splitCall.called /\ Plain(splitCall.sql) /\ NoLookAlike(splitCall.sql)) =>
    SplitsAtDepthZero

\* The splitter has emitted a block with a nested block and two inner ';' as
\* one statement, and the statement after it as another.
C29_Witness ==
  /\ splitCall.called
  /\ NoLookAlike(splitCall.sql)
  /\ Cardinality(splitCall.run.begins) = 2
  /\ Cardinality(splitCall.run.ends) = 2
  /\ Len(splitCall.run.statements) = 2
  /\ countChar(splitCall.run.statements[1], ";") = 2
  /\ Cardinality(splitCall.run.cuts) = 2

\* C30: the splitter changes the block depth only at a BEGIN or an END that
\* stands as a whole word, whatever its case.
C30_KeywordsOnlyAsWholeWords ==
  splitCall.called =>
    /\ \A i \in splitCall.run.begins : wholeWordAt(splitCall.sql, i, "BEGIN")
    /\ \A i \in splitCall.run.ends : wholeWordAt(splitCall.sql, i, "END")

\* The values handed back by k consecutive calls of next().
RECURSIVE nextRun(_, _)
nextRun(cn, k) == IF k = 0 THEN <<>> ELSE <<next(cn).ret>> \o nextRun(next(cn).cn, k - 1)

\* row peeks at what next() would hand back; resetCursor puts the cursor at 0;
\* after a query() that answered n rows, n calls of next() hand back the rows
\* in order and one more hands back null.
CursorReadsInOrder(c) ==
  /\ row(conns[c]) = next(conns[c]).ret
  /\ User_resetCursor(c) => conns'[c].resultCursor = 0
  /\ (Connection_query_resume(c) /\ pending[c] = "query" /\ lastRet'[c] = "ok")
       => nextRun(conns'[c], Len(conns'[c].result) + 1) = conns'[c].result \o <<Null>>

\* One call of next(): below the row count it hands back the row of the buffer
\* under the cursor and moves the cursor by one, at the end it hands back null
\* and leaves the cursor.
NextReadsTheBuffer(c) ==
  User_next(c) =>
    IF conns[c].resultCursor < conns[c].resultCount
    THEN /\ conns[c].resultCursor + 1 <= Len(conns[c].result)
         /\ next(conns[c]).ret = conns[c].result[conns[c].resultCursor + 1]
         /\ conns'[c].resultCursor = conns[c].resultCursor + 1
    ELSE /\ next(conns[c]).ret = Null
         /\ conns'[c].resultCursor = conns[c].resultCursor

\* C33 as stated: next() hands back the row under the cursor and advances, or
\* null without moving at the end; row peeks at the same row; n rows are read
\* by n calls of next() and the call after them gives null; resetCursor sets
\* the cursor to 0.
C33_NextReadsTheBuffer ==
  [][\A c \in Tasks : CursorReadsInOrder(c) /\ NextReadsTheBuffer(c)]_vars

\* C33 where the buffer holds at least rowCount rows: the same statement for
\* every call of next() made while the count does not exceed the buffer.
C33_NextReadsTheBufferWithinCount ==
  [][\A c \in Tasks :
       /\ CursorReadsInOrder(c)
       /\ conns[c].resultCount <= Len(conns[c].result) => NextReadsTheBuffer(c)]_vars

\* A connection whose query answered two rows and whose cursor has been moved
\* over both by next().
C33_Witness ==
  \E c \in Tasks : /\ conns[c].resultCount = 2 /\ Len(conns[c].result) = 2
                   /\ conns[c].resultCursor = 2 /\ row(conns[c]) = Null

\* The outcome of the awaited query, execute or batchExecute of connection c.
Answered(c, ops) ==
  /\ pending[c] \in ops
  /\ \/ Connection_query_resume(c)
     \/ Connection_execute_resume(c)
     \/ Connection_batchExecute_resume(c)

\* A successful execute or batchExecute leaves the buffer empty with row
\* count 0, so hasRows() is false and row and next() give null; a failed
\* query, execute or batchExecute leaves buffer, count and cursor alone.
ExecuteEmptiesTheBuffer(c) ==
  /\ (Answered(c, {"execute", "batchExecute"}) /\ lastRet'[c] = "ok")
       => /\ conns'[c].result = <<>> /\ conns'[c].resultCount = 0
          /\ ~hasRows(conns'[c])
          /\ row(conns'[c]) = Null /\ next(conns'[c]).ret = Null
  /\ (Answered(c, SingleShot) /\ lastRet'[c] # "ok")
       => /\ conns'[c].result = conns[c].result
          /\ conns'[c].resultCount = conns[c].resultCount
          /\ conns'[c].resultCursor = conns[c].resultCursor

\* C34 as stated: a successful query or queryRow replaces the buffer and puts
\* the cursor at 0; a successful execute or batchExecute leaves the buffer
\* empty with row count 0, hasRows() false and row/next() giving null; a
\* failed call leaves the result of the last successful one.
C34_CursorFollowsLatestResult ==
  [][\A c \in Tasks :
       /\ (Answered(c, {"query", "queryRow"}) /\ lastRet'[c] = "ok")
            => conns'[c].result \in QueryResults /\ conns'[c].resultCursor = 0
       /\ ExecuteEmptiesTheBuffer(c)]_vars

\* C34 for what the cursor operations hand back: after a successful query or
\* queryRow that answered rows the cursor is 0 and row is the first of them,
\* after a successful query that answered none hasRows() is false and row is
\* null; execute and batchExecute as stated.
C34_CursorReadsLatestResult ==
  [][\A c \in Tasks :
       /\ (Answered(c, {"query", "queryRow"}) /\ lastRet'[c] = "ok")
            => /\ conns'[c].result \in QueryResults
               /\ conns'[c].result # <<>>
                    => conns'[c].resultCursor = 0 /\ row(conns'[c]) = conns'[c].result[1]
               /\ (conns'[c].result = <<>> /\ pending[c] = "query")
                    => ~hasRows(conns'[c]) /\ row(conns'[c]) = Null
       /\ ExecuteEmptiesTheBuffer(c)]_vars

\* A connection that read two rows of a query and then had its buffer
\* emptied by a later successful call.
C34_Witness ==
  \E c \in Tasks : /\ conns[c].opened /\ lastRet[c] = "ok" /\ pending[c] = "none"
                   /\ conns[c].result = <<>> /\ conns[c].resultCount = 0
                   /\ conns[c].resultCursor = 2

\* C37 as stated: the row count of a connection never exceeds the number of
\* rows in its buffer, so whenever hasRows() is true row and next() hand back
\* a row of the buffer, never undefined.
C37_CountWithinBuffer ==
  \A c \in Tasks :
     /\ conns[c].resultCount <= Len(conns[c].result)
     /\ hasRows(conns[c])
          => row(conns[c]) # UndefinedRow /\ next(conns[c]).ret # UndefinedRow

\* C38: when the driver rejects begin, commit or rollback the in-transaction
\* flag is as it was (false after a rejected begin, true after a rejected
\* commit or rollback, so that both may be called again) and the connection
\* is still open.
C38_RejectedCallKeepsFlag ==
  [][\A c \in Tasks :
       /\ (Connection_begin_resume(c) /\ Failed(lastRet'[c]))
            => ~conns'[c].inTransaction /\ conns'[c].opened
       /\ ((Connection_commit_resume(c) \/ Connection_rollback_resume(c)) /\ Failed(lastRet'[c]))
            => conns'[c].inTransaction /\ conns'[c].opened]_vars

\* The driver rejected a commit and the connection is still open and in its
\* transaction.
C38_Witness ==
  \E c \in Tasks : /\ conns[c].errorLast = "commitFailed" /\ Failed(lastRet[c])
                   /\ conns[c].inTransaction /\ conns[c].opened

\* C35 as stated: whenever an open connection of the pool is not in a
\* transaction by its own flag, its physical connection has no transaction
\* in progress in the driver.
C35_NoUnknownDriverTransaction ==
  usePool =>
    \A c \in openConnections :
       (conns[c].opened /\ ~conns[c].inTransaction) => ~physTx[conns[c].connection]

\* C36 as stated: a connection enters the open-set, and a physical connection
\* is taken, only for a start() call that is still awaited and that this
\* very step resolves to its caller; a start() that has failed adds nothing.
C36_FailedStartLeavesNothing ==
  [][\A t \in Tasks :
       ((t \in openConnections' /\ t \notin openConnections) \/ physBusy' \ physBusy # {})
         /\ Provider_start_callback(t)
       => /\ tasks[t].pc = "start"
          /\ tasks'[t].pc # "start" /\ tasks'[t].ret # "thrown"]_vars

\* C39 as stated: when init() has returned, for every entry of the file that
\* declares several schemas and no database, and for every schema s of the
\* entry, the DataSource that getDataSource(id, s) answers has schema s.
C39_EachSchemaItsOwnDataSource ==
  [][(ZeusDB_init /\ initRet'.how = "returned") =>
       \A j \in 1..Len(configFile.datasources) :
          LET ds == configFile.datasources[j]
          IN  (Len(ds.schemas) >= 2 /\ ds.database = "") =>
                \A k \in 1..Len(ds.schemas) :
                   LET r == getDataSourceFrom(ds.id, ds.schemas[k], 0, configFile,
                                              dataSources', constructed', 0)
                   IN  r.how = "returned" /\ r.dataSource.schema = ds.schemas[k]
    ]_vars

\* The dollar tag that starts at index i of s: '$', letters, digits or
\* underscores, '$'; "" if there is none.
tagAt(s, i) ==
  IF i <= Len(s) /\ charAt(s, i) = "$"
       /\ \E j \in (i + 1)..Len(s) :
             charAt(s, j) = "$" /\ \A k \in (i + 1)..(j - 1) : isWordChar(charAt(s, k))
  THEN SubSeq(s, i, CHOOSE j \in (i + 1)..Len(s) :
                      charAt(s, j) = "$" /\ \A k \in (i + 1)..(j - 1) : isWordChar(charAt(s, k)))
  ELSE ""

\* The ';' of s from index i on at which the text is to be split: those that
\* are not in single quotes, not right after a backslash, and not between a
\* dollar tag found outside quotes and the next occurrence of the same tag.
\* mode is "out", "outEscaped", "quote", "quoteEscaped" or "block"; tag is the
\* tag of the open block.
RECURSIVE openSemicolons(_, _, _, _)
openSemicolons(s, i, mode, tag) ==
  IF i > Len(s) THEN {}
  ELSE IF mode = "block"
  THEN IF i + Len(tag) - 1 <= Len(s) /\ SubSeq(s, i, i + Len(tag) - 1) = tag
       THEN openSemicolons(s, i + Len(tag), "out", "")
       ELSE openSemicolons(s, i + 1, "block", tag)
  ELSE IF mode = "quoteEscaped" THEN openSemicolons(s, i + 1, "quote", "")
  ELSE IF mode = "quote"
  THEN openSemicolons(s, i + 1, IF charAt(s, i) = "'" THEN "out"
                                ELSE IF charAt(s, i) = "\\" THEN "quoteEscaped"
                                ELSE "quote", "")
  ELSE IF tagAt(s, i) # ""
  THEN openSemicolons(s, i + Len(tagAt(s, i)), "block", tagAt(s, i))
  ELSE IF mode = "outEscaped" THEN openSemicolons(s, i + 1, "out", "")
  ELSE IF charAt(s, i) = "\\" THEN openSemicolons(s, i + 1, "outEscaped", "")
  ELSE IF charAt(s, i) = "'" THEN openSemicolons(s, i + 1, "quote", "")
  ELSE (IF charAt(s, i) = ";" THEN {i} ELSE {}) \cup openSemicolons(s, i + 1, "out", "")

\* C32 as stated: between a dollar tag found outside quotes and the next
\* occurrence of the same tag no ';' splits and no other tag ends the block;
\* after the closing tag splitting goes on: the splits are exactly the ';'
\* outside quotes and outside such blocks that no backslash escapes.
C32_DollarBlockIsNotSplit ==
  splitCall.called => splitCall.run.cuts = openSemicolons(splitCall.sql, 1, "out", "")

\* C32 for the texts without a backslash.
C32_DollarBlockIsNotSplitWithoutBackslash ==
  (splitCall.called /\ countChar(splitCall.sql, "\\") = 0)
    => splitCall.run.cuts = openSemicolons(splitCall.sql, 1, "out", "")

\* A block opened by $a$ that holds a ';' and the tag $$, and is closed by
\* $a$; the ';' after it splits.
C32_Witness ==
  /\ splitCall.called
  /\ splitCall.sql = "$a$;$$$a$;"
  /\ splitCall.run.statements = <<"$a$;$$$a$">>
  /\ splitCall.run.cuts = {10}

\* A comment line: its trimmed content starts with "--".
isCommentLine(line) == startsWith(trim(line), "--")

\* The pieces into which the splits at the indices of cuts divide s from
\* index i on, cur being the piece under way.
RECURSIVE segments(_, _, _, _)
segments(s, i, cur, cuts) ==
  IF i > Len(s) THEN <<cur>>
  ELSE IF i \in cuts THEN <<cur>> \o segments(s, i + 1, "", cuts)
  ELSE segments(s, i + 1, cur \o charAt(s, i), cuts)

\* s without its white space.
RECURSIVE squeeze(_)
squeeze(s) ==
  IF s = "" THEN ""
  ELSE (IF charAt(s, 1) \in WhiteSpace THEN "" ELSE charAt(s, 1)) \o squeeze(slice(s, 2))

\* What a piece of the text has to say: its lines that are no comment lines,
\* white space left out.
content(segment) ==
  squeeze(concat(SelectSeq(splitLines(segment, ""), LAMBDA line : ~isCommentLine(line))))

\* C31: every emitted statement is non-empty, trimmed and without a comment
\* line; the statements are, in the order of the text, the pieces between the
\* splits (the text after the last ';' included) without their comment lines,
\* and a piece of white space and comment lines only gives no statement.
C31_StatementsWithoutCommentLines ==
  splitCall.called =>
    LET statements == splitCall.run.statements
        pieces == SelectSeq(segments(splitCall.sql, 1, "", splitCall.run.cuts),
                            LAMBDA segment : content(segment) # "")
    IN  /\ \A k \in 1..Len(statements) :
             /\ statements[k] # ""
             /\ statements[k] = trim(statements[k])
             /\ \A l \in 1..Len(splitLines(statements[k], "")) :
                   ~isCommentLine(splitLines(statements[k], "")[l])
        /\ Len(statements) = Len(pieces)
        /\ \A k \in 1..Len(statements) : squeeze(statements[k]) = content(pieces[k])

\* The text with a comment between its two statements gives exactly the two
\* statements.
C31_Witness ==
  /\ splitCall.called
  /\ splitCall.sql = CommentExample
  /\ splitCall.run.statements = <<"x(1)", "x(2)">>

\* The text without its comment lines.
withoutCommentLines(sql) ==
  joinLines(SelectSeq(splitLines(sql, ""), LAMBDA line : ~isCommentLine(line)))

\* C40 as stated: what stands in a comment line has no influence on the
\* splitting: the statements of a text are those of the same text with its
\* comment lines removed.
C40_CommentTextHasNoInfluence ==
  splitCall.called =>
    splitCall.run.statements = splitSqlStatements(withoutCommentLines(splitCall.sql))
====
